---- MODULE Spec2Model ----
(***************************************************************************)
(* Verification model of the core runtime: the zone-based stability        *)
(* tracker (NgZone, src/unnamed/part_000) and the reflective injector      *)
(* (ReflectiveInjector_, src/unnamed/part_003).                            *)
(*                                                                         *)
(* The tracker is modelled as a small-step interpreter over a call stack:  *)
(* every hook of the forked zone (onInvoke, onInvokeTask, onHasTask,       *)
(* onHandleError), onEnter, onLeave and the three stages of checkStable    *)
(* are actions; the functions passed to run/runGuarded/runOutsideAngular   *)
(* and the subscribers of the four emitters are user code that may return, *)
(* throw, schedule a task in its current zone or call back into the zone.  *)
(***************************************************************************)
EXTENDS Integers, Sequences, FiniteSets, TLC

\* ------------------------------------------------------------------ bounds
\* Number of calls, schedulings and throws user code makes in one behaviour.
MaxOps == 4

\* ------------------------------------------------------------------ state
VARIABLES
    isStable,              \* NgZone._isStable
    nesting,               \* NgZone._nesting
    hasPendingMicrotasks,  \* NgZone._hasPendingMicrotasks
    hasPendingMacrotasks,  \* NgZone._hasPendingMacrotasks
    taskCounts,            \* pending tasks of the inner zone, per class
    outerTasks,            \* pending microtasks of the outer zone
    stack,                 \* call stack, innermost frame last
    exc,                   \* the error being thrown (NoErr: none)
    errs,                  \* number of errors created so far
    fuel,                  \* user operations left
    log,                   \* emissions of the current host turn, in order
    topCall,               \* what the host started in the current turn
    turn,                  \* number of host turns started
    stableEmits,           \* onStable emissions since the last onUnstable
    scheduled,             \* some task was scheduled since construction
    act,                   \* the step just taken
    delegated,             \* the hasTask notification that step passed to the parent delegate
    providers,             \* per injector: the resolved providers of its proto-injector
    parentOf,              \* per injector: ReflectiveInjector_._parent (NoInjector: null)
    objs,                  \* per injector: the strategy's obj0..obj9 / objs
    constructionCounter,   \* per injector: ReflectiveInjector_._constructionCounter
    made,                  \* every factory invocation so far; an object's id is its index
    gets,                  \* number of calls made on the injectors
    last,                  \* the last call made on an injector and its outcome
    input                  \* the providers the program is about to resolve

zoneVars == <<isStable, nesting, hasPendingMicrotasks, hasPendingMacrotasks>>
trackerVars == <<isStable, nesting, hasPendingMicrotasks, hasPendingMacrotasks,
                 taskCounts, outerTasks, stack, exc, errs, fuel, log, topCall, turn,
                 stableEmits, scheduled, act, delegated>>
injectorVars == <<providers, parentOf, objs, constructionCounter, made, gets, last,
                  input>>
vars == <<trackerVars, injectorVars>>

NoErr == 0

InvokeKinds == {"run", "runGuarded", "microTask", "macroTask"}
TaskKinds == {"microTask", "macroTask"}

\* ------------------------------------------------------------------ frames
Top == stack[Len(stack)]
Pop(s) == SubSeq(s, 1, Len(s) - 1)
SetTop(s, f) == [s EXCEPT ![Len(s)] = f]

\* a function passed to the zone, or a subscriber of an emitter, running in `zone`
UserFrame(role, zone) == [k |-> "user", pc |-> role, zone |-> zone, pend |-> NoErr]
\* Zone.run / Zone.runGuarded / Zone.runTask of the inner zone, called from `zone`
InvokeFrame(kind, zone) == [k |-> kind, pc |-> "onEnter", zone |-> zone, pend |-> NoErr]
CheckStableFrame == [k |-> "checkStable", pc |-> "start", zone |-> "inner", pend |-> NoErr]

Event(name, e) == [ev |-> name, err |-> e]
Emit(name, e) == Append(log, Event(name, e))

\* the zone the running code is attributed to (Zone.current)
CurZone == IF stack = <<>> THEN "outer" ELSE Top.zone

\* user code (or the host, when the stack is empty) is running and may act
UserRuns == exc = NoErr /\ (IF stack = <<>> THEN TRUE ELSE Top.k = "user")
CanCall == UserRuns /\ fuel > 0

\* a new host turn starts when the host calls in with an empty stack
StartTurn(what) ==
    IF stack = <<>>
    THEN /\ turn' = turn + 1
         /\ topCall' = what
         /\ log' = <<>>
    ELSE UNCHANGED <<turn, topCall, log>>

\* ------------------------------------------------------------------ NgZone
\* delegate.hasTask(target, hasTaskState): what onHasTask passes on, for a
\* hasTaskState whose change is a class of tasks
Forwarded(target, change) == [target |-> target, change |-> change]
\* the step passed no notification on
NotForwarded == Forwarded("none", "none")

\* no injector has been created
NoInjectors ==
    /\ providers = <<>>
    /\ parentOf = <<>>
    /\ objs = <<>>
    /\ constructionCounter = <<>>
    /\ made = <<>>
    /\ gets = 0
    /\ last = [op |-> "none"]
    /\ input = <<>>

\* the tracker after construction
NgZoneInit ==
    /\ isStable = TRUE
    /\ nesting = 0
    /\ hasPendingMicrotasks = FALSE
    /\ hasPendingMacrotasks = FALSE
    /\ taskCounts = [microTask |-> 0, macroTask |-> 0]
    /\ outerTasks = 0
    /\ stack = <<>>
    /\ exc = NoErr
    /\ errs = 0
    /\ fuel = MaxOps
    /\ log = <<>>
    /\ topCall = "none"
    /\ turn = 0
    /\ stableEmits = 0
    /\ scheduled = FALSE
    /\ act = "init"
    /\ delegated = NotForwarded

Init == NgZoneInit /\ NoInjectors

\* run(fn) { return this.inner.run(fn); }
Run ==
    /\ CanCall
    /\ StartTurn("run")
    /\ stack' = Append(stack, InvokeFrame("run", CurZone))
    /\ fuel' = fuel - 1
    /\ act' = "run"
    /\ delegated' = NotForwarded
    /\ UNCHANGED injectorVars
    /\ UNCHANGED <<zoneVars, taskCounts, outerTasks, exc, errs, stableEmits, scheduled>>

\* runGuarded(fn) { return this.inner.runGuarded(fn); }
RunGuarded ==
    /\ CanCall
    /\ StartTurn("runGuarded")
    /\ stack' = Append(stack, InvokeFrame("runGuarded", CurZone))
    /\ fuel' = fuel - 1
    /\ act' = "runGuarded"
    /\ delegated' = NotForwarded
    /\ UNCHANGED injectorVars
    /\ UNCHANGED <<zoneVars, taskCounts, outerTasks, exc, errs, stableEmits, scheduled>>

\* a slip in runOutsideAngular: fn is run in the tracked zone
OutsideZoneInner == "inner"

\* the zone runOutsideAngular runs fn in
OutsideZone == "outer"

\* runOutsideAngular(fn) { return this.outer.run(fn); }
RunOutsideAngular ==
    /\ CanCall
    /\ StartTurn("runOutsideAngular")
    /\ stack' = Append(stack, UserFrame("outsideFn", OutsideZone))
    /\ fuel' = fuel - 1
    /\ act' = "runOutsideAngular"
    /\ delegated' = NotForwarded
    /\ UNCHANGED injectorVars
    /\ UNCHANGED <<zoneVars, taskCounts, outerTasks, exc, errs, stableEmits, scheduled>>

\* a slip in onEnter: the notification is sent on every entry
EnterFindsStableAlways == TRUE

\* the test of onEnter: if (this._isStable)
EnterFindsStable == isStable

\* onEnter, first statement of the try block of onInvoke and onInvokeTask
OnEnter ==
    /\ stack # <<>> /\ Top.k \in InvokeKinds /\ Top.pc = "onEnter"
    /\ nesting' = nesting + 1
    /\ IF EnterFindsStable
       THEN /\ isStable' = FALSE
            /\ log' = Emit("onUnstable", NoErr)
            /\ stableEmits' = 0
            /\ stack' = Append(SetTop(stack, [Top EXCEPT !.pc = "fn"]),
                               UserFrame("onUnstable", "inner"))
       ELSE /\ stack' = SetTop(stack, [Top EXCEPT !.pc = "fn"])
            /\ UNCHANGED <<isStable, log, stableEmits>>
    /\ act' = "onEnter"
    /\ delegated' = NotForwarded
    /\ UNCHANGED injectorVars
    /\ UNCHANGED <<hasPendingMicrotasks, hasPendingMacrotasks, taskCounts, outerTasks,
                   exc, errs, fuel, topCall, turn, scheduled>>

\* delegate.invoke / delegate.invokeTask: the callback runs in the inner zone
InvokeFn ==
    /\ stack # <<>> /\ Top.k \in InvokeKinds /\ Top.pc = "fn" /\ exc = NoErr
    /\ stack' = Append(SetTop(stack, [Top EXCEPT !.pc = "onLeave"]),
                       UserFrame("fn", "inner"))
    /\ act' = "invoke"
    /\ delegated' = NotForwarded
    /\ UNCHANGED injectorVars
    /\ UNCHANGED <<zoneVars, taskCounts, outerTasks, exc, errs, fuel, log, topCall,
                   turn, stableEmits, scheduled>>

\* a slip in onInvoke: onLeave is not in a finally block, so nesting stays
\* raised when the callback threw
OnLeaveKeepsNestingOnError ==
    /\ stack # <<>> /\ Top.k \in InvokeKinds
    /\ Top.pc = "onLeave" \/ (Top.pc = "fn" /\ exc # NoErr)
    /\ nesting' = IF exc # NoErr THEN nesting ELSE nesting - 1
    /\ stack' = Append(SetTop(stack, [Top EXCEPT !.pc = "exit", !.pend = exc]),
                       CheckStableFrame)
    /\ exc' = NoErr
    /\ act' = "onLeave"
    /\ delegated' = NotForwarded
    /\ UNCHANGED injectorVars
    /\ UNCHANGED <<isStable, hasPendingMicrotasks, hasPendingMacrotasks, taskCounts,
                   outerTasks, errs, fuel, log, topCall, turn, stableEmits, scheduled>>

\* a slip in onLeave: checkStable is not called when the callback threw
OnLeaveNoCheckOnError ==
    /\ stack # <<>> /\ Top.k \in InvokeKinds
    /\ Top.pc = "onLeave" \/ (Top.pc = "fn" /\ exc # NoErr)
    /\ nesting' = nesting - 1
    /\ stack' = IF exc # NoErr
                 THEN SetTop(stack, [Top EXCEPT !.pc = "exit", !.pend = exc])
                 ELSE Append(SetTop(stack, [Top EXCEPT !.pc = "exit", !.pend = exc]),
                             CheckStableFrame)
    /\ exc' = NoErr
    /\ act' = "onLeave"
    /\ delegated' = NotForwarded
    /\ UNCHANGED injectorVars
    /\ UNCHANGED <<isStable, hasPendingMicrotasks, hasPendingMacrotasks, taskCounts,
                   outerTasks, errs, fuel, log, topCall, turn, stableEmits, scheduled>>

\* onLeave, the finally block of onInvoke and onInvokeTask: it runs when the
\* callback returned, when it threw and when onEnter threw
OnLeave ==
    /\ stack # <<>> /\ Top.k \in InvokeKinds
    /\ Top.pc = "onLeave" \/ (Top.pc = "fn" /\ exc # NoErr)
    /\ nesting' = nesting - 1
    /\ stack' = Append(SetTop(stack, [Top EXCEPT !.pc = "exit", !.pend = exc]),
                       CheckStableFrame)
    /\ exc' = NoErr
    /\ act' = "onLeave"
    /\ delegated' = NotForwarded
    /\ UNCHANGED injectorVars
    /\ UNCHANGED <<isStable, hasPendingMicrotasks, hasPendingMacrotasks, taskCounts,
                   outerTasks, errs, fuel, log, topCall, turn, stableEmits, scheduled>>

\* a slip in checkStable: pending microtasks are not looked at
CheckStableCondIgnoresPending == nesting = 0 /\ ~isStable

\* the condition under which checkStable acts
CheckStableCond == nesting = 0 /\ ~hasPendingMicrotasks /\ ~isStable

\* a slip in checkStable: nesting is not raised around the emission
CheckStableWithoutNesting ==
    /\ stack # <<>> /\ Top.k = "checkStable" /\ Top.pc = "start"
    /\ IF CheckStableCond
       THEN /\ nesting' = nesting
            /\ log' = Emit("onMicrotaskEmpty", NoErr)
            /\ stack' = Append(SetTop(stack, [Top EXCEPT !.pc = "finally"]),
                               UserFrame("onMicrotaskEmpty", "inner"))
       ELSE /\ stack' = Pop(stack)
            /\ UNCHANGED <<nesting, log>>
    /\ act' = "checkStable"
    /\ delegated' = NotForwarded
    /\ UNCHANGED injectorVars
    /\ UNCHANGED <<isStable, hasPendingMicrotasks, hasPendingMacrotasks, taskCounts,
                   outerTasks, exc, errs, fuel, topCall, turn, stableEmits, scheduled>>

\* checkStable, up to the emission of onMicrotaskEmpty
CheckStable ==
    /\ stack # <<>> /\ Top.k = "checkStable" /\ Top.pc = "start"
    /\ IF CheckStableCond
       THEN /\ nesting' = nesting + 1
            /\ log' = Emit("onMicrotaskEmpty", NoErr)
            /\ stack' = Append(SetTop(stack, [Top EXCEPT !.pc = "finally"]),
                               UserFrame("onMicrotaskEmpty", "inner"))
       ELSE /\ stack' = Pop(stack)
            /\ UNCHANGED <<nesting, log>>
    /\ act' = "checkStable"
    /\ delegated' = NotForwarded
    /\ UNCHANGED injectorVars
    /\ UNCHANGED <<isStable, hasPendingMicrotasks, hasPendingMacrotasks, taskCounts,
                   outerTasks, exc, errs, fuel, topCall, turn, stableEmits, scheduled>>

\* a slip in checkStable: onStable is emitted after every onMicrotaskEmpty
StableCondAlways == TRUE

\* the test guarding the emission of onStable in the finally block
StableCond == ~hasPendingMicrotasks

\* checkStable, outer finally block: onStable is emitted through
\* runOutsideAngular, an error of an onMicrotaskEmpty subscriber stays pending
CheckStableFinally ==
    /\ stack # <<>> /\ Top.k = "checkStable" /\ Top.pc = "finally"
    /\ nesting' = nesting - 1
    /\ IF StableCond
       THEN /\ log' = Emit("onStable", NoErr)
            /\ stableEmits' = stableEmits + 1
            /\ stack' = Append(SetTop(stack, [Top EXCEPT !.pc = "setStable", !.pend = exc]),
                               UserFrame("onStable", OutsideZone))
            /\ exc' = NoErr
       ELSE /\ stack' = Pop(stack)
            /\ UNCHANGED <<log, stableEmits, exc>>
    /\ act' = "checkStableFinally"
    /\ delegated' = NotForwarded
    /\ UNCHANGED injectorVars
    /\ UNCHANGED <<isStable, hasPendingMicrotasks, hasPendingMacrotasks, taskCounts,
                   outerTasks, errs, fuel, topCall, turn, scheduled>>

\* checkStable, inner finally block: this._isStable = true
CheckStableSetStable ==
    /\ stack # <<>> /\ Top.k = "checkStable" /\ Top.pc = "setStable"
    /\ isStable' = TRUE
    /\ exc' = IF exc # NoErr THEN exc ELSE Top.pend
    /\ stack' = Pop(stack)
    /\ act' = "setStable"
    /\ delegated' = NotForwarded
    /\ UNCHANGED injectorVars
    /\ UNCHANGED <<nesting, hasPendingMicrotasks, hasPendingMacrotasks, taskCounts,
                   outerTasks, errs, fuel, log, topCall, turn, stableEmits, scheduled>>


\* the error leaving the frame on top: a finally block that threw replaces the
\* error that was pending when it started
Leaving == IF exc # NoErr THEN exc ELSE Top.pend

\* a slip in onHandleError: it reports the error as not handled
HandleErrorResultTrue == TRUE

\* what onHandleError returns to the zone: false, the error is handled
HandleErrorResult == FALSE

\* ZoneDelegate.invokeTask, finally block: the finished task leaves the counts
\* of the inner zone; the count reaching 0 is reported through onHasTask
UpdateTaskCount ==
    /\ stack # <<>> /\ Top.k \in TaskKinds /\ Top.pc = "exit"
    /\ taskCounts' = [taskCounts EXCEPT ![Top.k] = @ - 1]
    /\ LET f == [Top EXCEPT !.pc = "handleError", !.pend = Leaving]
       IN  stack' = IF taskCounts[Top.k] = 1
                    THEN Append(SetTop(stack, f),
                                [k |-> "hasTask", pc |-> Top.k, zone |-> "inner", pend |-> NoErr])
                    ELSE SetTop(stack, f)
    /\ exc' = NoErr
    /\ act' = "updateTaskCount"
    /\ delegated' = NotForwarded
    /\ UNCHANGED injectorVars
    /\ UNCHANGED <<zoneVars, outerTasks, errs, fuel, log, topCall, turn, stableEmits,
                   scheduled>>

\* a slip in setHasMicrotask: checkStable is not called
SetHasMicrotaskWithoutCheck(hasMicrotasks) ==
    /\ hasPendingMicrotasks' = hasMicrotasks
    /\ stack' = Pop(stack)
    /\ UNCHANGED <<isStable, nesting, hasPendingMacrotasks>>

\* setHasMicrotask(hasMicrotasks): store the flag, then checkStable()
SetHasMicrotask(hasMicrotasks) ==
    /\ hasPendingMicrotasks' = hasMicrotasks
    /\ stack' = SetTop(stack, CheckStableFrame)
    /\ UNCHANGED <<isStable, nesting, hasPendingMacrotasks>>

\* a slip in setHasMacrotask: the value lands in the microtask flag
SetHasMacrotaskWrongFlag(hasMacrotasks) ==
    /\ hasPendingMicrotasks' = hasMacrotasks
    /\ stack' = Pop(stack)
    /\ UNCHANGED <<isStable, nesting, hasPendingMacrotasks>>

\* setHasMacrotask(hasMacrotasks): store the flag
SetHasMacrotask(hasMacrotasks) ==
    /\ hasPendingMacrotasks' = hasMacrotasks
    /\ stack' = Pop(stack)
    /\ UNCHANGED <<isStable, nesting, hasPendingMicrotasks>>

\* a slip in onHasTask: the target of the notification is not looked at
CurrentIsTargetAlways(target) == TRUE

\* the test of onHasTask: current === target, current being the inner zone
CurrentIsTarget(target) == target = "inner"

\* onHasTask: only a notification of the tracked zone itself (current === target)
\* reaches the setters
OnHasTask ==
    /\ stack # <<>> /\ Top.k = "hasTask"
    /\ IF CurrentIsTarget(Top.zone)
       THEN IF Top.pc = "microTask"
            THEN SetHasMicrotask(taskCounts.microTask > 0)
            ELSE SetHasMacrotask(taskCounts.macroTask > 0)
       ELSE /\ stack' = Pop(stack)
            /\ UNCHANGED zoneVars
    /\ act' = "onHasTask"
    /\ delegated' = Forwarded(Top.zone, Top.pc)
    /\ UNCHANGED injectorVars
    /\ UNCHANGED <<taskCounts, outerTasks, exc, errs, fuel, log, topCall, turn,
                   stableEmits, scheduled>>

\* a slip in triggerError: the error is not emitted
TriggerErrorDropped(error) == log

\* triggerError(error) { this._onErrorEvents.emit(error); }
TriggerError(error) == Emit("onError", error)

\* onHandleError: delegate.handleError, then triggerError(error) emits onError.
\* Reached from the catch block of Zone.runGuarded and of Zone.runTask.
OnHandleError ==
    /\ stack # <<>>
    /\ \/ Top.k = "runGuarded" /\ Top.pc = "exit"
       \/ Top.k \in TaskKinds /\ Top.pc = "handleError"
    /\ Leaving # NoErr
    /\ log' = TriggerError(Leaving)
    /\ stack' = Append(SetTop(stack, [Top EXCEPT !.pc = "handled", !.pend = Leaving]),
                       UserFrame("onError", "inner"))
    /\ exc' = NoErr
    /\ act' = "onHandleError"
    /\ delegated' = NotForwarded
    /\ UNCHANGED injectorVars
    /\ UNCHANGED <<zoneVars, taskCounts, outerTasks, errs, fuel, topCall, turn,
                   stableEmits, scheduled>>

\* Zone.run, Zone.runGuarded and Zone.runTask give control back to their caller:
\* run rethrows, the guarded forms rethrow only what onHandleError did not handle
ZoneReturn ==
    /\ stack # <<>> /\ Top.k \in InvokeKinds
    /\ \/ /\ Top.k = "run" /\ Top.pc = "exit"
          /\ exc' = Leaving
       \/ /\ \/ Top.k = "runGuarded" /\ Top.pc = "exit"
             \/ Top.k \in TaskKinds /\ Top.pc = "handleError"
          /\ Leaving = NoErr
          /\ exc' = NoErr
       \/ /\ Top.pc = "handled"
          /\ exc' = IF exc # NoErr THEN exc
                    ELSE IF HandleErrorResult THEN Top.pend ELSE NoErr
    /\ stack' = Pop(stack)
    /\ act' = "zoneReturn"
    /\ delegated' = NotForwarded
    /\ UNCHANGED injectorVars
    /\ UNCHANGED <<zoneVars, taskCounts, outerTasks, errs, fuel, log, topCall, turn,
                   stableEmits, scheduled>>

\* ------------------------------------------------------------------ user code
\* a function or subscriber schedules a microtask in its current zone
ScheduleMicroTask ==
    /\ CanCall /\ stack # <<>>
    /\ IF CurZone = "inner"
       THEN /\ taskCounts' = [taskCounts EXCEPT !.microTask = @ + 1]
            /\ stack' = IF taskCounts.microTask = 0
                         THEN Append(stack, [k |-> "hasTask", pc |-> "microTask",
                                             zone |-> "inner", pend |-> NoErr])
                         ELSE stack
            /\ UNCHANGED outerTasks
       ELSE /\ outerTasks' = outerTasks + 1
            /\ UNCHANGED <<taskCounts, stack>>
    /\ scheduled' = TRUE
    /\ fuel' = fuel - 1
    /\ act' = "scheduleMicroTask"
    /\ delegated' = NotForwarded
    /\ UNCHANGED injectorVars
    /\ UNCHANGED <<zoneVars, exc, errs, log, topCall, turn, stableEmits>>

\* a function or subscriber running in the inner zone schedules a macrotask
ScheduleMacroTask ==
    /\ CanCall /\ stack # <<>> /\ CurZone = "inner"
    /\ taskCounts' = [taskCounts EXCEPT !.macroTask = @ + 1]
    /\ stack' = IF taskCounts.macroTask = 0
                 THEN Append(stack, [k |-> "hasTask", pc |-> "macroTask",
                                     zone |-> "inner", pend |-> NoErr])
                 ELSE stack
    /\ scheduled' = TRUE
    /\ fuel' = fuel - 1
    /\ act' = "scheduleMacroTask"
    /\ delegated' = NotForwarded
    /\ UNCHANGED injectorVars
    /\ UNCHANGED <<zoneVars, outerTasks, exc, errs, log, topCall, turn, stableEmits>>

\* a function or subscriber throws
Throw ==
    /\ CanCall /\ stack # <<>>
    /\ errs' = errs + 1
    /\ exc' = errs + 1
    /\ stack' = Pop(stack)
    /\ fuel' = fuel - 1
    /\ act' = "throw"
    /\ delegated' = NotForwarded
    /\ UNCHANGED injectorVars
    /\ UNCHANGED <<zoneVars, taskCounts, outerTasks, log, topCall, turn, stableEmits,
                   scheduled>>

\* a function or subscriber returns
Return ==
    /\ UserRuns /\ stack # <<>>
    /\ stack' = Pop(stack)
    /\ act' = "return"
    /\ delegated' = NotForwarded
    /\ UNCHANGED injectorVars
    /\ UNCHANGED <<zoneVars, taskCounts, outerTasks, exc, errs, fuel, log, topCall, turn,
                   stableEmits, scheduled>>

\* an error thrown by a callee passes through a function that does not catch it
Propagate ==
    /\ stack # <<>> /\ Top.k = "user" /\ exc # NoErr
    /\ stack' = Pop(stack)
    /\ act' = "propagate"
    /\ delegated' = NotForwarded
    /\ UNCHANGED injectorVars
    /\ UNCHANGED <<zoneVars, taskCounts, outerTasks, exc, errs, fuel, log, topCall, turn,
                   stableEmits, scheduled>>

\* a function running in the tracked zone schedules the first task of a zone
\* forked from it: the hook of the inner zone is notified with that zone as
\* target
ScheduleChildTask ==
    /\ CanCall /\ stack # <<>> /\ CurZone = "inner"
    /\ \E kind \in TaskKinds :
          stack' = Append(stack, [k |-> "hasTask", pc |-> kind, zone |-> "child",
                                  pend |-> NoErr])
    /\ fuel' = fuel - 1
    /\ act' = "scheduleChildTask"
    /\ delegated' = NotForwarded
    /\ UNCHANGED injectorVars
    /\ UNCHANGED <<zoneVars, taskCounts, outerTasks, exc, errs, log, topCall, turn,
                   stableEmits, scheduled>>

\* ------------------------------------------------------------------ host
\* an error nobody caught reaches the host, which reports it
HostCatch ==
    /\ stack = <<>> /\ exc # NoErr
    /\ exc' = NoErr
    /\ act' = "hostCatch"
    /\ delegated' = NotForwarded
    /\ UNCHANGED injectorVars
    /\ UNCHANGED <<zoneVars, taskCounts, outerTasks, stack, errs, fuel, log, topCall,
                   turn, stableEmits, scheduled>>

\* the host runs a pending task of the inner zone: Zone.runTask -> onInvokeTask.
\* Microtasks are drained before the next macrotask.
RunTask ==
    /\ stack = <<>> /\ exc = NoErr
    /\ \E kind \in TaskKinds :
          /\ taskCounts[kind] > 0
          /\ kind = "macroTask" => taskCounts.microTask = 0 /\ outerTasks = 0
          /\ StartTurn(kind)
          /\ stack' = <<InvokeFrame(kind, "inner")>>
          /\ act' = kind
          /\ delegated' = NotForwarded
          /\ UNCHANGED injectorVars
    /\ UNCHANGED <<zoneVars, taskCounts, outerTasks, exc, errs, fuel, stableEmits,
                   scheduled>>

\* the host runs a pending microtask of the outer zone
RunOuterTask ==
    /\ stack = <<>> /\ exc = NoErr /\ outerTasks > 0
    /\ outerTasks' = outerTasks - 1
    /\ StartTurn("outerTask")
    /\ stack' = <<UserFrame("outerTask", "outer")>>
    /\ act' = "outerTask"
    /\ delegated' = NotForwarded
    /\ UNCHANGED injectorVars
    /\ UNCHANGED <<zoneVars, taskCounts, exc, errs, fuel, stableEmits, scheduled>>

Next ==
    \/ Run \/ RunGuarded \/ RunOutsideAngular
    \/ OnEnter \/ InvokeFn \/ OnLeave
    \/ CheckStable \/ CheckStableFinally \/ CheckStableSetStable
    \/ UpdateTaskCount \/ OnHasTask \/ OnHandleError \/ ZoneReturn
    \/ ScheduleMicroTask \/ ScheduleMacroTask \/ Throw \/ Return \/ Propagate
    \/ HostCatch \/ RunTask \/ RunOuterTask

Spec == Init /\ [][Next]_vars

\* ------------------------------------------------------- ReflectiveInjector
\* Keys are the ids of ReflectiveKeys; providers are resolved providers
\* [key, multi, facs], a resolved factory is [deps, out] where out is what the
\* factory function does when called ("ok": a new object, "null": null,
\* "undefined": undefined, "throws": an exception), a dependency is [key, optional, lower, upper].

\* the tracker with zones forked from the tracked zone
ChildNext == Next \/ ScheduleChildTask

ChildSpec == Init /\ [][ChildNext]_vars

MaxGets == 2

_MAX_CONSTRUCTION_COUNTER == 10

\* the number of provider/object slots of the inline strategies
InlineSlots == 10

\* the largest number of dependencies _instantiate can pass to a factory
MaxFactoryArgs == 20

\* ReflectiveKey.get(Injector).id
INJECTOR_KEY == 0

\* null where an injector is expected
NoInjector == 0

\* null where a key id is expected (the keyId of an unused inline slot)
NoKeyId == -1

ErrorKinds == {"NoProviderError", "CyclicDependencyError", "InstantiationError",
               "OutOfBoundsError"}

\* values and thrown errors have one shape: t is the kind, id the identity of
\* an object (its index in made) or injector, keys the keys of an error
Value(t, id) == [t |-> t, id |-> id, keys |-> <<>>]
Error(t, keys) == [t |-> t, id |-> 0, keys |-> keys]
IsError(v) == v.t \in ErrorKinds

UNDEFINED == Value("UNDEFINED", 0)
NULL == Value("null", 0)
\* the undefined of JavaScript, which is not the marker UNDEFINED
JS_UNDEFINED == Value("undefined", 0)
THROW_IF_NOT_FOUND == Value("THROW_IF_NOT_FOUND", 0)
InjectorValue(inj) == Value("injector", inj)
ObjectValue(id) == Value("object", id)
ArrayValue(id) == Value("array", id)

\* the mutable state of all injectors, as the methods below transform it
Heap == [objs |-> objs, cnt |-> constructionCounter, made |-> made]

AddKeyDropped(e, key) == e

\* e.addKey(injector, key)
AddKey(e, key) == [e EXCEPT !.keys = Append(@, key)]

\* the strategy the proto-injector of inj chose
Strategy(inj) ==
    IF Len(providers[inj]) > _MAX_CONSTRUCTION_COUNTER THEN "dynamic" ELSE "inline"

\* the number of slots of the strategy: keyId0..keyId9, or keyIds.length
NumberOfSlots(inj) ==
    IF Strategy(inj) = "inline" THEN InlineSlots ELSE Len(providers[inj])

\* keyIdN of the inline strategy (null in an unused slot), keyIds[N] of the
\* dynamic one; slots are counted from 1
KeyIdAt(inj, i) ==
    IF i <= Len(providers[inj]) THEN providers[inj][i].key ELSE NoKeyId

\* keyId0..keyId9 of the inline strategy, keyIds of the dynamic one
KeyIds(inj) == [i \in 1..NumberOfSlots(inj) |-> KeyIdAt(inj, i)]

\* the slots are tested in order: the first slot holding keyId, 0 if there
\* is none (an unused slot holds null and matches no key id)
SlotOf(inj, keyId) ==
    LET ps == providers[inj]
        n == Len(ps)
    IN  IF \E i \in 1..n : ps[i].key = keyId
        THEN CHOOSE i \in 1..n :
                 ps[i].key = keyId /\ \A j \in 1..(i - 1) : ps[j].key # keyId
        ELSE 0

NewObjsNull(ps) ==
    IF Len(ps) > _MAX_CONSTRUCTION_COUNTER
    THEN [i \in 1..Len(ps) |-> NULL]
    ELSE [i \in 1..InlineSlots |-> NULL]

\* the object slots of a new injector strategy
NewObjs(ps) ==
    IF Len(ps) > _MAX_CONSTRUCTION_COUNTER
    THEN [i \in 1..Len(ps) |-> UNDEFINED]
    ELSE [i \in 1..InlineSlots |-> UNDEFINED]

GetMaxNumberOfObjectsZero(s, inj) == 0

GetMaxNumberOfObjects(s, inj) ==
    IF Strategy(inj) = "inline" THEN _MAX_CONSTRUCTION_COUNTER ELSE Len(s.objs[inj])

ThrowOrNullAlwaysNull(key, notFoundValue) == NULL

\* if (nf !== THROW_IF_NOT_FOUND) return nf; else throw NoProviderError
ThrowOrNull(key, notFoundValue) ==
    IF notFoundValue # THROW_IF_NOT_FOUND THEN notFoundValue
    ELSE Error("NoProviderError", <<key>>)

\* The methods call each other recursively (a factory's dependencies are got
\* from the injector that instantiates it), so they are run on a machine: the
\* heap st, the stack of the calls in progress, and ret, the value the call
\* that just ended returned or threw (Pending while a call is entered).
Pending == Value("pending", 0)

Caller(m) == SubSeq(m.stack, 1, Len(m.stack) - 1)
Callee(m) == m.stack[Len(m.stack)]

\* the running method returns or throws v
Returns(m, s, v) == [st |-> s, stack |-> Caller(m), ret |-> v]
\* the running method, now at frame f, calls the method of frame g
Calls(m, s, f, g) == [st |-> s, stack |-> Caller(m) \o <<f, g>>, ret |-> Pending]
\* the running method goes on at frame f
GoesOn(m, s, f) == [st |-> s, stack |-> Append(Caller(m), f), ret |-> Pending]

GetByKeyFrame(inj, key, lower, upper, notFoundValue) ==
    [pc |-> "_getByKey", inj |-> inj, key |-> key, lower |-> lower, upper |-> upper,
     nf |-> notFoundValue]
GetObjByKeyIdFrame(inj, keyId) == [pc |-> "getObjByKeyId", inj |-> inj, key |-> keyId]
InstantiateFrame(inj, provider) ==
    [pc |-> "_instantiate", inj |-> inj, provider |-> provider, i |-> 1, j |-> 1,
     args |-> <<>>, res |-> <<>>]

IsSelfNever(upperBoundVisibility) == FALSE

\* upperBoundVisibility instanceof Self
IsSelf(upperBoundVisibility) == upperBoundVisibility = "Self"

IsSkipSelfNever(lowerBoundVisibility) == FALSE

\* lowerBoundVisibility instanceof SkipSelf
IsSkipSelf(lowerBoundVisibility) == lowerBoundVisibility = "SkipSelf"

GetByKeyWithoutInjectorKey(m) ==
    LET f == Callee(m)
    IN  IF IsSelf(f.upper) THEN GoesOn(m, m.st, [f EXCEPT !.pc = "_getByKeySelf"])
        ELSE GoesOn(m, m.st,
                    [f EXCEPT !.pc = "_getByKeyDefault",
                              !.inj = IF IsSkipSelf(f.lower) THEN parentOf[f.inj]
                                      ELSE f.inj])

\* _getByKey
GetByKey(m) ==
    LET f == Callee(m)
    IN  IF f.key = INJECTOR_KEY THEN Returns(m, m.st, InjectorValue(f.inj))
        ELSE IF IsSelf(f.upper) THEN GoesOn(m, m.st, [f EXCEPT !.pc = "_getByKeySelf"])
        ELSE GoesOn(m, m.st,
                    [f EXCEPT !.pc = "_getByKeyDefault",
                              !.inj = IF IsSkipSelf(f.lower) THEN parentOf[f.inj]
                                      ELSE f.inj])

\* _getByKeySelf
GetByKeySelf(m) ==
    LET f == Callee(m)
    IN  IF m.ret = Pending THEN Calls(m, m.st, f, GetObjByKeyIdFrame(f.inj, f.key))
        ELSE IF m.ret # UNDEFINED THEN Returns(m, m.st, m.ret)
        ELSE Returns(m, m.st, ThrowOrNull(f.key, f.nf))

\* a slip in _getByKeyDefault: an error of the construction is answered with
\* the notFoundValue when there is one
GetByKeyDefaultSwallowsErrors(m) ==
    LET f == Callee(m)
    IN  IF m.ret = Pending
        THEN IF f.inj = NoInjector THEN Returns(m, m.st, ThrowOrNull(f.key, f.nf))
             ELSE Calls(m, m.st, f, GetObjByKeyIdFrame(f.inj, f.key))
        ELSE IF IsError(m.ret) /\ f.nf # THROW_IF_NOT_FOUND THEN Returns(m, m.st, f.nf)
        ELSE IF m.ret # UNDEFINED THEN Returns(m, m.st, m.ret)
        ELSE GoesOn(m, m.st, [f EXCEPT !.inj = parentOf[f.inj]])

\* a slip in _getByKeyDefault: after a miss the search goes on at the root
GetByKeyDefaultSkipsToRoot(m) ==
    LET f == Callee(m)
    IN  IF m.ret = Pending
        THEN IF f.inj = NoInjector THEN Returns(m, m.st, ThrowOrNull(f.key, f.nf))
             ELSE Calls(m, m.st, f, GetObjByKeyIdFrame(f.inj, f.key))
        ELSE IF m.ret # UNDEFINED THEN Returns(m, m.st, m.ret)
        ELSE GoesOn(m, m.st, [f EXCEPT !.inj = IF f.inj = 1 THEN NoInjector ELSE 1])

\* a slip in _getByKeyDefault: null and undefined are taken for a miss
GetByKeyDefaultNullIsMissing(m) ==
    LET f == Callee(m)
    IN  IF m.ret = Pending
        THEN IF f.inj = NoInjector THEN Returns(m, m.st, ThrowOrNull(f.key, f.nf))
             ELSE Calls(m, m.st, f, GetObjByKeyIdFrame(f.inj, f.key))
        ELSE IF m.ret \notin {UNDEFINED, NULL, JS_UNDEFINED} THEN Returns(m, m.st, m.ret)
        ELSE GoesOn(m, m.st, [f EXCEPT !.inj = parentOf[f.inj]])

\* _getByKeyDefault: f.inj is the injector the loop is at
GetByKeyDefault(m) ==
    LET f == Callee(m)
    IN  IF m.ret = Pending
        THEN IF f.inj = NoInjector THEN Returns(m, m.st, ThrowOrNull(f.key, f.nf))
             ELSE Calls(m, m.st, f, GetObjByKeyIdFrame(f.inj, f.key))
        ELSE IF m.ret # UNDEFINED THEN Returns(m, m.st, m.ret)
        ELSE GoesOn(m, m.st, [f EXCEPT !.inj = parentOf[f.inj]])

SlotIsFilledNever(o) == FALSE

\* the test of the strategy's cache: this.objN === UNDEFINED fails
SlotIsFilled(o) == o # UNDEFINED

\* the guard of _new: the counter is read, then incremented, never reset
NewThrows(s, inj) == s.cnt[inj] > GetMaxNumberOfObjects(s, inj)

\* strategy.getObjByKeyId: the cached object, or the object of _new, which is
\* stored in the slot once _new has returned
GetObjByKeyId(m) ==
    LET f == Callee(m)
        i == SlotOf(f.inj, f.key)
        s1 == [m.st EXCEPT !.cnt[f.inj] = @ + 1]
    IN  IF m.ret = Pending
        THEN IF i = 0 THEN Returns(m, m.st, UNDEFINED)
             ELSE IF SlotIsFilled(m.st.objs[f.inj][i])
             THEN Returns(m, m.st, m.st.objs[f.inj][i])
             ELSE IF NewThrows(m.st, f.inj)
             THEN Returns(m, s1, Error("CyclicDependencyError", <<f.key>>))
             ELSE Calls(m, s1, f, InstantiateFrame(f.inj, providers[f.inj][i]))
        ELSE IF IsError(m.ret) THEN Returns(m, m.st, m.ret)
        ELSE Returns(m, [m.st EXCEPT !.objs[f.inj][i] = m.ret], m.ret)

\* the Error _instantiate throws for a provider of more than 20 dependencies
CannotInstantiate == -1

\* new InstantiationError(this, e, e.stack, provider.key): id is the error e it
\* wraps, the one thrown by the factory invocation made[id] or CannotInstantiate
InstantiationError(originalError, key) ==
    [t |-> "InstantiationError", id |-> originalError, keys |-> <<key>>]

CallFactoryLosesError(s, inj, key, factory, args) ==
    LET s1 == [s EXCEPT !.made = Append(@, [inj |-> inj, key |-> key, args |-> args,
                                              out |-> factory.out])]
    IN  CASE factory.out = "throws" ->
                [st |-> s1, res |-> Error("InstantiationError", <<key>>)]
          [] factory.out = "null" -> [st |-> s1, res |-> NULL]
          [] factory.out = "undefined" -> [st |-> s1, res |-> JS_UNDEFINED]
          [] OTHER -> [st |-> s1, res |-> ObjectValue(Len(s1.made))]

\* calling the factory function with the resolved dependencies
CallFactory(s, inj, key, factory, args) ==
    LET s1 == [s EXCEPT !.made = Append(@, [inj |-> inj, key |-> key, args |-> args,
                                              out |-> factory.out])]
    IN  CASE factory.out = "throws" ->
                [st |-> s1, res |-> InstantiationError(Len(s1.made), key)]
          [] factory.out = "null" -> [st |-> s1, res |-> NULL]
          [] factory.out = "undefined" -> [st |-> s1, res |-> JS_UNDEFINED]
          [] OTHER -> [st |-> s1, res |-> ObjectValue(Len(s1.made))]

MakeArrayOfFirst(s, inj, key, res) ==
    LET s1 == [s EXCEPT !.made = Append(@, [inj |-> inj, key |-> key,
                                              args |-> <<res[1]>>, out |-> "array"])]
    IN  [st |-> s1, res |-> ArrayValue(Len(s1.made))]

\* new Array(n) filled with the objects of a multi provider's factories
MakeArray(s, inj, key, res) ==
    LET s1 == [s EXCEPT !.made = Append(@, [inj |-> inj, key |-> key, args |-> res,
                                              out |-> "array"])]
    IN  [st |-> s1, res |-> ArrayValue(Len(s1.made))]

\* _instantiateProvider and _instantiate: factory i of f.provider, whose
\* dependencies d0..d19 are got in order (j is the next one)
Instantiate(m) ==
    LET f == Callee(m)
        p == f.provider
        factory == p.facs[f.i]
        made1 == CallFactory(m.st, f.inj, p.key, factory, f.args)
        res1 == Append(f.res, made1.res)
        arr == MakeArray(made1.st, f.inj, p.key, res1)
    IN  IF m.ret # Pending
        THEN IF IsError(m.ret) THEN Returns(m, m.st, AddKey(m.ret, p.key))
             ELSE GoesOn(m, m.st, [f EXCEPT !.j = @ + 1, !.args = Append(@, m.ret)])
        ELSE IF f.j <= Len(factory.deps) /\ f.j <= MaxFactoryArgs
        THEN LET dep == factory.deps[f.j]
             IN  Calls(m, m.st, f,
                       GetByKeyFrame(f.inj, dep.key, dep.lower, dep.upper,
                                     IF dep.optional THEN NULL ELSE THROW_IF_NOT_FOUND))
        ELSE IF Len(factory.deps) > MaxFactoryArgs
        THEN Returns(m, m.st, InstantiationError(CannotInstantiate, p.key))
        ELSE IF IsError(made1.res) THEN Returns(m, made1.st, made1.res)
        ELSE IF ~p.multi THEN Returns(m, made1.st, made1.res)
        ELSE IF f.i < Len(p.facs)
        THEN GoesOn(m, made1.st, [f EXCEPT !.i = @ + 1, !.j = 1, !.args = <<>>,
                                           !.res = res1])
        ELSE Returns(m, arr.st, arr.res)

\* one step of the method that is running
Step(m) ==
    LET pc == Callee(m).pc
    IN  CASE pc = "_getByKey" -> GetByKey(m)
          [] pc = "_getByKeySelf" -> GetByKeySelf(m)
          [] pc = "_getByKeyDefault" -> GetByKeyDefault(m)
          [] pc = "getObjByKeyId" -> GetObjByKeyId(m)
          [] pc = "_instantiate" -> Instantiate(m)

RECURSIVE Finish(_)
Finish(m) == IF m.stack = <<>> THEN m ELSE Finish(Step(m))

\* the outcome of a call: the heap after it and what it returned or threw
Call(s, frame) ==
    CHOOSE r \in {[st |-> m.st, res |-> m.ret] :
                     m \in {Finish([st |-> s, stack |-> <<frame>>, ret |-> Pending])}} :
        TRUE

\* injector.get(token, notFoundValue)
InjectorGet(s, inj, key, notFoundValue) ==
    Call(s, GetByKeyFrame(inj, key, "none", "none", notFoundValue))

\* _getByReflectiveDependency
GetByReflectiveDependency(s, inj, dep) ==
    Call(s, GetByKeyFrame(inj, dep.key, dep.lower, dep.upper,
                          IF dep.optional THEN NULL ELSE THROW_IF_NOT_FOUND))

\* ---- the injectors the calls are made on
Dependency(key, optional, lower, upper) ==
    [key |-> key, optional |-> optional, lower |-> lower, upper |-> upper]
Dep(key) == Dependency(key, FALSE, "none", "none")
Provider(key, deps, out) ==
    [key |-> key, multi |-> FALSE, facs |-> <<[deps |-> deps, out |-> out]>>]

\* the key ids of the tokens used: A and B are provided by the root, C by the
\* child, Missing by no injector
KeyA == 1
KeyB == 2
KeyC == 3
KeyMissing == 4
FirstFillerKey == 100

Tokens == {KeyA, KeyB, KeyC, KeyMissing}

\* ps followed by providers of independent tokens, n providers in all
PadTo(ps, n) ==
    [i \in 1..(IF n > Len(ps) THEN n ELSE Len(ps)) |->
        IF i <= Len(ps) THEN ps[i] ELSE Provider(FirstFillerKey + i, <<>>, "ok")]

Root == 1
Child == 2
Injectors == {Root, Child}

RootProviders ==
    { <<Provider(KeyA, da, "ok"), Provider(KeyB, db, ob)>> :
        da \in { <<>>, <<Dep(KeyB)>>, <<Dep(KeyMissing)>>,
                 <<Dependency(KeyMissing, TRUE, "none", "none")>> },
        db \in { <<>>, <<Dep(KeyA)>> },
        ob \in { "ok", "throws" } }

ChildProviders ==
    { <<Provider(KeyC, dc, "ok")>> \o own :
        dc \in { <<>>, <<Dep(KeyA)>>, <<Dep(KeyB)>>, <<Dep(KeyA), Dep(KeyB)>>,
                 <<Dependency(KeyA, FALSE, "none", "Self")>>,
                 <<Dependency(KeyA, TRUE, "none", "Self")>>,
                 <<Dependency(KeyA, FALSE, "SkipSelf", "none")>> },
        own \in { <<>>, <<Provider(KeyB, <<>>, "ok")>> } }

\* a call, what it returned or threw, and how many factory invocations had
\* been made before it
NoCall == [op |-> "none", inj |-> NoInjector, key |-> NoKeyId, res |-> UNDEFINED,
           before |-> 0]

\* ReflectiveInjector.fromResolvedProviders(rp) and
\* root.createChildFromResolved(cp)
InjectorsInit ==
    \E rp \in RootProviders, cp \in ChildProviders, dynamic \in BOOLEAN :
        LET n == IF dynamic THEN _MAX_CONSTRUCTION_COUNTER + 1 ELSE 0
            ps == <<PadTo(rp, n), PadTo(cp, n)>>
        IN  /\ providers = ps
            /\ parentOf = <<NoInjector, Root>>
            /\ objs = [inj \in Injectors |-> NewObjs(ps[inj])]
            /\ constructionCounter = [inj \in Injectors |-> 0]
            /\ made = <<>>
            /\ gets = 0
            /\ last = NoCall
            /\ input = <<>>

InjectorInit == NgZoneInit /\ InjectorsInit

\* the program calls inj.get(token, notFoundValue) and catches what it throws
Get ==
    /\ gets < MaxGets
    /\ \E inj \in Injectors, key \in Tokens, nf \in {THROW_IF_NOT_FOUND, NULL} :
          \E r \in {InjectorGet(Heap, inj, key, nf)} :
              /\ objs' = r.st.objs
              /\ constructionCounter' = r.st.cnt
              /\ made' = r.st.made
              /\ last' = [op |-> "get", inj |-> inj, key |-> key, res |-> r.res,
                           before |-> Len(made)]
    /\ gets' = gets + 1
    /\ UNCHANGED <<providers, parentOf, input, trackerVars>>

InjectorNext == Get

InjectorSpec == InjectorInit /\ [][InjectorNext]_vars

\* ---------------------------------------------- resolve, resolveAndCreate
\* What the program passes to resolve is a sequence of provider declarations
\* and of nested sequences of them. A declaration has a token (its key id),
\* multi, and a factory given by its dependencies and by what it does.
ProviderDeclaration(token, multi, deps, out) ==
    [kind |-> "provider", token |-> token, multi |-> multi, deps |-> deps, out |-> out]
ProviderArray(items) == [kind |-> "array", items |-> items]

\* the declarations of a nested sequence, depth first
RECURSIVE NormalizeProviders(_, _)
NormalizeProviders(nodes, res) ==
    IF nodes = <<>> THEN res
    ELSE LET b == Head(nodes)
         IN  NormalizeProviders(Tail(nodes),
                                IF b.kind = "array" THEN NormalizeProviders(b.items, res)
                                ELSE Append(res, b))

\* the resolved provider of one declaration
ResolveReflectiveProvider(b) ==
    [key |-> b.token, multi |-> b.multi, facs |-> <<[deps |-> b.deps, out |-> b.out]>>]

\* one resolved provider per key, at the place of the key's first
\* declaration: a later non-multi declaration replaces the earlier one, a
\* later multi declaration adds its factory
RECURSIVE MergeResolvedReflectiveProviders(_, _)
MergeResolvedReflectiveProviders(ps, merged) ==
    IF ps = <<>> THEN merged
    ELSE LET p == Head(ps)
             hits == {i \in 1..Len(merged) : merged[i].key = p.key}
             i == CHOOSE j \in hits : TRUE
         IN  MergeResolvedReflectiveProviders(
                 Tail(ps),
                 IF hits = {} THEN Append(merged, p)
                 ELSE IF p.multi THEN [merged EXCEPT ![i].facs = @ \o p.facs]
                 ELSE [merged EXCEPT ![i] = p])

ResolveReflectiveProviders(nodes) ==
    LET normalized == NormalizeProviders(nodes, <<>>)
    IN  MergeResolvedReflectiveProviders(
            [i \in 1..Len(normalized) |-> ResolveReflectiveProvider(normalized[i])], <<>>)

ResolveTopLevelOnly(nodes) ==
    LET IsDeclaration(b) == b.kind = "provider"
    IN  ResolveReflectiveProviders(SelectSeq(nodes, IsDeclaration))

\* ReflectiveInjector.resolve
Resolve(nodes) == ResolveReflectiveProviders(nodes)

MaxLeaves == 3

\* the declarations the program uses: two of A (the second depends on B), one
\* of B, which depends on the injector, and two multi declarations of C
Declarations ==
    { ProviderDeclaration(KeyA, FALSE, <<>>, "ok"),
      ProviderDeclaration(KeyA, FALSE, <<Dep(KeyB)>>, "ok"),
      ProviderDeclaration(KeyB, FALSE, <<Dep(INJECTOR_KEY)>>, "ok"),
      ProviderDeclaration(KeyC, TRUE, <<>>, "ok"),
      ProviderDeclaration(KeyC, TRUE, <<Dep(KeyA)>>, "ok") }

\* [a, [b, [c]]]
RECURSIVE NestRight(_)
NestRight(ds) ==
    IF Len(ds) <= 1 THEN ds ELSE <<Head(ds), ProviderArray(NestRight(Tail(ds)))>>

\* [[[a], b], c]
RECURSIVE NestLeft(_)
NestLeft(ds) ==
    IF Len(ds) <= 1 THEN ds
    ELSE <<ProviderArray(NestLeft(SubSeq(ds, 1, Len(ds) - 1))), ds[Len(ds)]>>

\* the ways the program nests a sequence of declarations
Nestings(ds) ==
    { ds, NestRight(ds), NestLeft(ds),
      <<ProviderArray(<<>>), ProviderArray(<<ProviderArray(ds)>>)>> }

ResolveInit ==
    /\ NgZoneInit
    /\ providers = <<>> /\ parentOf = <<>> /\ objs = <<>>
    /\ constructionCounter = <<>> /\ made = <<>> /\ gets = 0
    /\ last = NoCall
    /\ \E ds \in [1..MaxLeaves -> Declarations] : input \in Nestings(ds)

\* ReflectiveInjector.resolveAndCreate(input)
ResolveAndCreate ==
    /\ providers = <<>>
    /\ \E rp \in {Resolve(input)} :
          /\ providers' = <<rp>>
          /\ objs' = <<NewObjs(rp)>>
    /\ parentOf' = <<NoInjector>>
    /\ constructionCounter' = <<0>>
    /\ last' = [op |-> "resolveAndCreate", inj |-> Root, key |-> NoKeyId,
                res |-> InjectorValue(Root), before |-> 0, arg |-> input]
    /\ input' = <<>>
    /\ UNCHANGED <<made, gets, trackerVars>>

\* the program calls get on the injector it created
GetCreated ==
    /\ providers # <<>> /\ gets < MaxGets
    /\ \E key \in {KeyA, KeyC, INJECTOR_KEY} :
          \E r \in {InjectorGet(Heap, Root, key, THROW_IF_NOT_FOUND)} :
              /\ objs' = r.st.objs
              /\ constructionCounter' = r.st.cnt
              /\ made' = r.st.made
              /\ last' = [op |-> "get", inj |-> Root, key |-> key, res |-> r.res,
                           before |-> Len(made)]
    /\ gets' = gets + 1
    /\ UNCHANGED <<providers, parentOf, input, trackerVars>>

InstantiateResolvedCached(inj, provider) == GetObjByKeyIdFrame(inj, provider.key)

\* instantiateResolved(provider): return this._instantiateProvider(provider)
InstantiateResolvedFrame(inj, provider) == InstantiateFrame(inj, provider)

\* injector.instantiateResolved(provider), for a resolved provider of the
\* injector
InstantiateResolved ==
    /\ providers # <<>> /\ gets < MaxGets
    /\ \E i \in 1..Len(providers[Root]) :
          \E r \in {Call(Heap, InstantiateResolvedFrame(Root, providers[Root][i]))} :
              /\ objs' = r.st.objs
              /\ constructionCounter' = r.st.cnt
              /\ made' = r.st.made
              /\ last' = [op |-> "instantiateResolved", inj |-> Root,
                           key |-> providers[Root][i].key, res |-> r.res,
                           before |-> Len(made)]
    /\ gets' = gets + 1
    /\ UNCHANGED <<providers, parentOf, input, trackerVars>>

\* injector.resolveAndInstantiate(declaration):
\* instantiateResolved(resolve([declaration])[0])
ResolveAndInstantiate ==
    /\ providers # <<>> /\ gets < MaxGets
    /\ \E d \in {ProviderDeclaration(KeyA, FALSE, <<>>, "ok"),
                  ProviderDeclaration(KeyMissing, FALSE, <<Dep(KeyA)>>, "ok")} :
          \E r \in {Call(Heap, InstantiateResolvedFrame(Root, Resolve(<<d>>)[1]))} :
              /\ objs' = r.st.objs
              /\ constructionCounter' = r.st.cnt
              /\ made' = r.st.made
              /\ last' = [op |-> "resolveAndInstantiate", inj |-> Root,
                           key |-> d.token, res |-> r.res, before |-> Len(made)]
    /\ gets' = gets + 1
    /\ UNCHANGED <<providers, parentOf, input, trackerVars>>

ResolveNext == ResolveAndCreate \/ GetCreated \/ InstantiateResolved \/ ResolveAndInstantiate

ResolveSpec == ResolveInit /\ [][ResolveNext]_vars

\* ------------------------------------------------- the two strategies
\* The same providers in an injector of the inline strategy and, followed by
\* providers of tokens nobody asks for, in one of the dynamic strategy.
MaxProbes == 6

InlineInjector == Root
DynamicInjector == Child

ProviderValue(index) == Value("provider", index)

\* proto.getProviderAtIndex(index), index counted from 0
GetProviderAtIndex(inj, index) ==
    IF Strategy(inj) = "inline"
    THEN IF index \in 0..(InlineSlots - 1)
         THEN IF index < Len(providers[inj]) THEN ProviderValue(index) ELSE NULL
         ELSE Error("OutOfBoundsError", <<>>)
    ELSE IF index < 0 \/ index >= Len(providers[inj])
         THEN Error("OutOfBoundsError", <<>>)
         ELSE ProviderValue(index)

StrategyInit ==
    /\ NgZoneInit
    /\ \E rp \in RootProviders :
          LET ps == <<rp, PadTo(rp, _MAX_CONSTRUCTION_COUNTER + 1)>>
          IN  /\ providers = ps
              /\ objs = [inj \in Injectors |-> NewObjs(ps[inj])]
    /\ parentOf = <<NoInjector, NoInjector>>
    /\ constructionCounter = [inj \in Injectors |-> 0]
    /\ made = <<>>
    /\ gets = 0
    /\ last = NoCall
    /\ input = <<>>

\* the program makes the same get on both injectors
GetBoth ==
    /\ gets < MaxProbes
    /\ \E key \in {KeyA, KeyB, KeyMissing} :
          \E r1 \in {InjectorGet(Heap, InlineInjector, key, THROW_IF_NOT_FOUND)} :
              \E r2 \in {InjectorGet(r1.st, DynamicInjector, key, THROW_IF_NOT_FOUND)} :
                  /\ objs' = r2.st.objs
                  /\ constructionCounter' = r2.st.cnt
                  /\ made' = r2.st.made
                  /\ last' = [op |-> "getBoth", inj |-> InlineInjector, key |-> key,
                               res |-> r1.res, before |-> Len(made), other |-> r2.res]
    /\ gets' = gets + 1
    /\ UNCHANGED <<providers, parentOf, input, trackerVars>>

\* the program asks the proto-injector of one of them for a provider
ProviderAtIndex ==
    /\ \E inj \in Injectors, index \in -1..(_MAX_CONSTRUCTION_COUNTER + 1) :
          last' = [op |-> "getProviderAtIndex", inj |-> inj, key |-> index,
                   res |-> GetProviderAtIndex(inj, index), before |-> Len(made)]
    /\ UNCHANGED <<providers, parentOf, objs, constructionCounter, made, gets, input,
                   trackerVars>>

StrategyNext == GetBoth

StrategySpec == StrategyInit /\ [][StrategyNext]_vars

ProtoNext == ProviderAtIndex

ProtoSpec == StrategyInit /\ [][ProtoNext]_vars

\* strategy.getObjAtIndex(index), index counted from 0: the inline strategy
\* answers objN for 0..9 and throws for the rest, the dynamic one tests the
\* index against objs.length
GetObjAtIndex(s, inj, index) ==
    IF Strategy(inj) = "inline"
    THEN IF index \in 0..(InlineSlots - 1) THEN s.objs[inj][index + 1]
         ELSE Error("OutOfBoundsError", <<>>)
    ELSE IF index < 0 \/ index >= Len(s.objs[inj])
         THEN Error("OutOfBoundsError", <<>>)
         ELSE s.objs[inj][index + 1]

\* injector.getAt(index) on one of the two injectors
GetAt ==
    /\ \E inj \in Injectors, index \in -1..(_MAX_CONSTRUCTION_COUNTER + 1) :
          last' = [op |-> "getAt", inj |-> inj, key |-> index,
                   res |-> GetObjAtIndex(Heap, inj, index), before |-> Len(made)]
    /\ UNCHANGED <<providers, parentOf, objs, constructionCounter, made, gets, input,
                   trackerVars>>

GetAtNext == GetBoth \/ GetAt

GetAtSpec == StrategyInit /\ [][GetAtNext]_vars

\* ------------------------------------------------- a chain of injectors
\* root <- child <- grandchild: the root provides A and B, the child its own
\* B, the grandchild C and possibly its own B.
MaxChainGets == 2

Grandchild == 3
ChainInjectors == {Root, Child, Grandchild}

OptionalDep(key) == Dependency(key, TRUE, "none", "none")
SkipSelfDep(key, optional) == Dependency(key, optional, "SkipSelf", "none")

\* one dependency more than _instantiate has cases for
TooManyDeps == [j \in 1..(MaxFactoryArgs + 1) |-> Dep(INJECTOR_KEY)]

ChainRootProviders ==
    { <<Provider(KeyA, da, "ok"), Provider(KeyB, db, ob)>> :
        da \in { <<Dep(KeyB)>>, <<OptionalDep(KeyB)>>,
                 <<SkipSelfDep(KeyB, FALSE)>>, <<SkipSelfDep(KeyB, TRUE)>> },
        db \in { <<>>, <<Dep(KeyA)>> },
        ob \in { "ok", "throws" } }

ChainChildProviders == <<Provider(KeyB, <<>>, "ok")>>

ChainGrandchildProviders ==
    { <<Provider(KeyC, dc, "ok")>> \o own :
        dc \in { <<Dep(KeyA)>>, <<OptionalDep(KeyA)>>, <<SkipSelfDep(KeyB, FALSE)>>,
                 TooManyDeps },
        own \in { <<>>, <<Provider(KeyB, <<>>, "ok")>> } }

\* fromResolvedProviders(rp).createChildFromResolved(cp).createChildFromResolved(gp)
ChainInit ==
    /\ NgZoneInit
    /\ \E rp \in ChainRootProviders, gp \in ChainGrandchildProviders :
          LET ps == <<rp, ChainChildProviders, gp>>
          IN  /\ providers = ps
              /\ objs = [inj \in ChainInjectors |-> NewObjs(ps[inj])]
    /\ parentOf = <<NoInjector, Root, Child>>
    /\ constructionCounter = [inj \in ChainInjectors |-> 0]
    /\ made = <<>>
    /\ gets = 0
    /\ last = NoCall
    /\ input = <<>>

\* the program calls inj.get(token) on an injector of the chain and catches
\* what it throws
ChainGet ==
    /\ gets < MaxChainGets
    /\ \E inj \in ChainInjectors, key \in {KeyA, KeyB, KeyC} :
          \E r \in {InjectorGet(Heap, inj, key, THROW_IF_NOT_FOUND)} :
              /\ objs' = r.st.objs
              /\ constructionCounter' = r.st.cnt
              /\ made' = r.st.made
              /\ last' = [op |-> "get", inj |-> inj, key |-> key, res |-> r.res,
                           before |-> Len(made)]
    /\ gets' = gets + 1
    /\ UNCHANGED <<providers, parentOf, input, trackerVars>>

ChainNext == ChainGet

ChainSpec == ChainInit /\ [][ChainNext]_vars

\* ------------------------------------------------- factories returning null
\* The child provides B with a factory that returns null or undefined, and C,
\* which depends on B; the root provides B too.
MaxNullGets == 3

NullRootProviders ==
    { <<Provider(KeyA, <<>>, "ok"), Provider(KeyB, <<>>, ob)>> :
        ob \in {"ok", "null"} }

NullChildProviders ==
    { <<Provider(KeyC, dc, "ok"), Provider(KeyB, <<>>, ob)>> :
        dc \in { <<Dep(KeyB)>>, <<Dependency(KeyB, TRUE, "none", "none")>>,
                 <<Dependency(KeyB, FALSE, "none", "Self")>>,
                 <<Dependency(KeyB, FALSE, "SkipSelf", "none")>> },
        ob \in {"null", "undefined"} }

\* the value a caller passes as notFoundValue
NotFoundDefault == Value("default", 1)

\* fromResolvedProviders(rp).createChildFromResolved(cp)
NullInit ==
    /\ NgZoneInit
    /\ \E rp \in NullRootProviders, cp \in NullChildProviders, dynamic \in BOOLEAN :
          LET n == IF dynamic THEN _MAX_CONSTRUCTION_COUNTER + 1 ELSE 0
              ps == <<PadTo(rp, n), PadTo(cp, n)>>
          IN  /\ providers = ps
              /\ objs = [inj \in Injectors |-> NewObjs(ps[inj])]
    /\ parentOf = <<NoInjector, Root>>
    /\ constructionCounter = [inj \in Injectors |-> 0]
    /\ made = <<>>
    /\ gets = 0
    /\ last = NoCall
    /\ input = <<>>

\* the program calls inj.get(token, notFoundValue)
NullGet ==
    /\ gets < MaxNullGets
    /\ \E inj \in Injectors, key \in {KeyB, KeyC},
          nf \in {THROW_IF_NOT_FOUND, NotFoundDefault} :
          \E r \in {InjectorGet(Heap, inj, key, nf)} :
              /\ objs' = r.st.objs
              /\ constructionCounter' = r.st.cnt
              /\ made' = r.st.made
              /\ last' = [op |-> "get", inj |-> inj, key |-> key, res |-> r.res,
                           before |-> Len(made), nf |-> nf]
    /\ gets' = gets + 1
    /\ UNCHANGED <<providers, parentOf, input, trackerVars>>

NullNext == NullGet

NullSpec == NullInit /\ [][NullNext]_vars

\* ------------------------------------------------- creating injectors
\* The program creates a root injector, makes gets on it, creates a child of
\* it at any moment and makes gets on both.
MaxCreateGets == 2

\* the providers the created injectors are given, and whether they are
\* followed by enough independent providers for the dynamic strategy
CreatedProviders(choices) ==
    { PadTo(ps, IF dynamic THEN _MAX_CONSTRUCTION_COUNTER + 1 ELSE 0) :
        ps \in choices, dynamic \in BOOLEAN }

CreateInit ==
    /\ NgZoneInit
    /\ providers = <<>> /\ parentOf = <<>> /\ objs = <<>>
    /\ constructionCounter = <<>> /\ made = <<>> /\ gets = 0
    /\ last = NoCall
    /\ input = <<>>

\* new ReflectiveInjector_(proto, parent): the counter is 0 and the strategy
\* of the proto-injector creates the slots
NewInjector(ps, parent) ==
    /\ providers' = Append(providers, ps)
    /\ parentOf' = Append(parentOf, parent)
    /\ objs' = Append(objs, NewObjs(ps))
    /\ constructionCounter' = Append(constructionCounter, 0)

\* ReflectiveInjector.fromResolvedProviders(ps)
FromResolvedProviders ==
    /\ providers = <<>>
    /\ \E ps \in CreatedProviders(RootProviders) : NewInjector(ps, NoInjector)
    /\ last' = [op |-> "fromResolvedProviders", inj |-> Root, key |-> NoKeyId,
                res |-> InjectorValue(Root), before |-> Len(made)]
    /\ UNCHANGED <<made, gets, input, trackerVars>>

\* root.createChildFromResolved(ps)
CreateChildFromResolved ==
    /\ Len(providers) = 1
    /\ \E ps \in CreatedProviders(ChildProviders) : NewInjector(ps, Root)
    /\ last' = [op |-> "createChildFromResolved", inj |-> Child, key |-> NoKeyId,
                res |-> InjectorValue(Child), before |-> Len(made)]
    /\ UNCHANGED <<made, gets, input, trackerVars>>

\* the program calls get on an injector it has created
GetOfCreated ==
    /\ gets < MaxCreateGets
    /\ \E inj \in DOMAIN providers, key \in Tokens :
          \E r \in {InjectorGet(Heap, inj, key, THROW_IF_NOT_FOUND)} :
              /\ objs' = r.st.objs
              /\ constructionCounter' = r.st.cnt
              /\ made' = r.st.made
              /\ last' = [op |-> "get", inj |-> inj, key |-> key, res |-> r.res,
                           before |-> Len(made)]
    /\ gets' = gets + 1
    /\ UNCHANGED <<providers, parentOf, input, trackerVars>>

CreateNext == FromResolvedProviders \/ CreateChildFromResolved \/ GetOfCreated

CreateSpec == CreateInit /\ [][CreateNext]_vars

\* ------------------------------------------------------------------ types
TypeOK ==
    /\ isStable \in BOOLEAN /\ hasPendingMicrotasks \in BOOLEAN
    /\ hasPendingMacrotasks \in BOOLEAN
    /\ nesting \in Nat
    /\ fuel \in 0..MaxOps


\* ------------------------------------------------------------------ claims
\* the names of the tracker's three stability notifications in a log, in order
Notifications(l) ==
    LET keep(e) == e.ev \in {"onUnstable", "onMicrotaskEmpty", "onStable"}
        kept == SelectSeq(l, keep)
    IN  [i \in 1..Len(kept) |-> kept[i].ev]

Count(l, name) == Cardinality({i \in 1..Len(l) : l[i].ev = name})

OnTop(role) == IF stack = <<>> THEN FALSE ELSE Top.k = "user" /\ Top.pc = role

\* C1: the first call of the host, run(fn), made in the initial state and
\* finished without any task having been scheduled, has emitted onUnstable,
\* onMicrotaskEmpty and onStable once each, in that order, and leaves the
\* tracker stable with nesting 0.
C1_RunEmitsOneOfEach ==
    (turn = 1 /\ topCall = "run" /\ stack = <<>> /\ ~scheduled)
        => /\ Notifications(log) = <<"onUnstable", "onMicrotaskEmpty", "onStable">>
           /\ isStable /\ nesting = 0

\* C2: at every emission of onStable no microtask of the tracked zone is
\* pending (neither counted by the zone nor flagged in the tracker) and
\* nesting is 0.
C2_OnStableOnlyWhenDrained ==
    (act = "checkStableFinally" /\ OnTop("onStable"))
        => ~hasPendingMicrotasks /\ taskCounts.microTask = 0 /\ nesting = 0

\* C2 witness: onStable is being emitted in the turn of a microtask that was
\* scheduled inside run.
C2_Witness ==
    /\ act = "checkStableFinally" /\ OnTop("onStable")
    /\ topCall = "microTask" /\ turn = 2

\* C3: between an emission of onUnstable and the next moment the tracker is
\* stable there is exactly one emission of onStable.
C3_OnStableOncePerPeriod ==
    /\ isStable => stableEmits <= 1
    /\ act = "setStable" => stableEmits = 1

\* C4: a step emits onUnstable exactly when it is onEnter finding isStable
\* true; the emission flips isStable to false, so the tracker was stable
\* between any two emissions.
C4_Step ==
    LET emits == /\ Len(log') = Len(log) + 1
                 /\ log'[Len(log')].ev = "onUnstable"
        enters == IF stack = <<>> THEN FALSE
                  ELSE Top.k \in InvokeKinds /\ Top.pc = "onEnter"
    IN  /\ emits <=> (enters /\ isStable)
        /\ emits => ~isStable'
        /\ (enters /\ ~isStable) => log' = log

C4_OnUnstableOnStableEntry == [][C4_Step]_vars

\* C4 witness: a nested entry was made while unstable, the turn has seen one
\* onUnstable only.
C4_Witness ==
    /\ act = "onEnter" /\ nesting = 2 /\ ~isStable
    /\ Count(log, "onUnstable") = 1

\* C5: when the outermost tracked invocation has exited, the tracker is stable
\* exactly if no microtask is pending.
C5_StableIffNoMicrotasks ==
    (stack = <<>> /\ nesting = 0) => (isStable <=> ~hasPendingMicrotasks)

\* C6: runOutsideAngular changes neither the tracker's fields nor its log, and
\* microtasks scheduled by the function it runs, or by the tasks that function
\* scheduled, are not counted for the tracked zone and notify nothing.
C6_Step ==
    /\ act' = "runOutsideAngular" =>
          /\ UNCHANGED zoneVars
          /\ log' = log \/ (stack = <<>> /\ log' = <<>>)
    /\ (act' = "scheduleMicroTask" /\ (OnTop("outsideFn") \/ OnTop("outerTask"))) =>
          /\ UNCHANGED <<zoneVars, taskCounts, log>>
          /\ stack' = stack
    /\ act' = "outerTask" => UNCHANGED <<zoneVars, taskCounts>>

C6_OutsideIsUntracked == [][C6_Step]_vars

\* C6 witness: the function run by runOutsideAngular has scheduled a microtask
\* and the tracker is still stable with nothing pending.
C6_Witness ==
    /\ act = "scheduleMicroTask" /\ OnTop("outsideFn")
    /\ outerTasks = 1 /\ isStable /\ ~hasPendingMicrotasks /\ nesting = 0

\* C7: an error leaving runGuarded is emitted once on onError and is not
\* rethrown; an error leaving run is rethrown to the caller and not emitted;
\* the error being thrown is never one that was emitted.
C7_Step ==
    LET at(kind, pc) == IF stack = <<>> THEN FALSE ELSE Top.k = kind /\ Top.pc = pc
    IN  /\ (at("runGuarded", "exit") /\ Leaving # NoErr) =>
              /\ log' = Append(log, Event("onError", Leaving))
              /\ exc' = NoErr
        /\ at("runGuarded", "handled") =>
              /\ log' = log
              /\ exc' = exc
        /\ (at("run", "exit") /\ Leaving # NoErr) =>
              /\ log' = log
              /\ exc' = Leaving
        /\ exc' # NoErr => \A i \in 1..Len(log') : log'[i] # Event("onError", exc')

C7_GuardedEmitsRunRethrows == [][C7_Step]_vars

\* C7 witness: runGuarded called by the host has returned normally after the
\* error of its function was emitted on onError.
C7_Witness ==
    /\ act = "zoneReturn" /\ stack = <<>> /\ topCall = "runGuarded"
    /\ exc = NoErr /\ Count(log, "onError") = 1 /\ log[Len(log)].err = 1

\* C8: a macroTask notification changes hasPendingMacrotasks only: no other
\* field of the tracker changes, nothing is emitted and checkStable is not run.
C8_Step ==
    LET macro == IF stack = <<>> THEN FALSE
                 ELSE Top.k = "hasTask" /\ Top.pc = "macroTask"
    IN  macro => /\ UNCHANGED <<isStable, nesting, hasPendingMicrotasks, log>>
                 /\ hasPendingMacrotasks' = (taskCounts.macroTask > 0)
                 /\ stack' = Pop(stack)

Invocations(inj, key) ==
    Cardinality({n \in 1..Len(made) :
                    made[n].inj = inj /\ made[n].key = key /\ made[n].out # "array"})

\* C9: for a non-multi provider whose factory succeeds, the factory has been
\* invoked at most once in its injector, exactly once if its slot is filled;
\* once the slot is filled every get of its token on that injector returns the
\* object in the slot and changes nothing, and the get just made on that
\* injector, if it returned, returned that object.
C9_CachedFactoryRunsOnce ==
    \A inj \in Injectors : \A i \in 1..Len(providers[inj]) :
        LET p == providers[inj][i]
        IN  (~p.multi /\ p.facs[1].out = "ok" /\ SlotOf(inj, p.key) = i) =>
                /\ Invocations(inj, p.key) <= 1
                /\ objs[inj][i] # UNDEFINED <=> Invocations(inj, p.key) = 1
                /\ objs[inj][i] # UNDEFINED =>
                       \A nf \in {THROW_IF_NOT_FOUND, NULL} :
                           InjectorGet(Heap, inj, p.key, nf)
                               = [st |-> Heap, res |-> objs[inj][i]]
                /\ (last.op = "get" /\ last.inj = inj /\ last.key = p.key
                        /\ ~IsError(last.res)) => last.res = objs[inj][i]

\* C9 witness: get(B) on the root made A for B's factory and then B; a later
\* get(A) on the root returned that A without invoking a factory.
C9_Witness ==
    /\ gets = 2 /\ last.op = "get" /\ last.inj = Root /\ last.key = KeyA
    /\ last.res = ObjectValue(1) /\ last.before = 2 /\ Len(made) = 2
    /\ made[1].key = KeyA /\ made[2].key = KeyB /\ made[2].args = <<ObjectValue(1)>>

\* the root provides the token and the child does not
ParentOnly(key) == SlotOf(Root, key) # 0 /\ SlotOf(Child, key) = 0

\* C10: for a token only the parent provides, get on the child has the outcome
\* get on the parent has (the same result and the same effect, whichever is
\* called first), and a result that is not an error is the object in the
\* parent's slot; a dependency of the child on that token declared with Self
\* fails with a NoProviderError for the token, or is null if optional, and
\* changes nothing; the get just made on the child of a provider with such a
\* dependency, unless the guard of _new stopped it, threw that error with the
\* provider's key added, or returned an object made with null.
C10_ParentTokenInheritedNotSelf ==
    /\ \A key \in Tokens : ParentOnly(key) =>
          /\ \A nf \in {THROW_IF_NOT_FOUND, NULL} :
                \A onChild \in {InjectorGet(Heap, Child, key, nf)} :
                    /\ onChild = InjectorGet(Heap, Root, key, nf)
                    /\ ~IsError(onChild.res) =>
                          onChild.res = onChild.st.objs[Root][SlotOf(Root, key)]
          /\ \A optional \in BOOLEAN :
                GetByReflectiveDependency(Heap, Child,
                                          Dependency(key, optional, "none", "Self"))
                    = [st |-> Heap,
                       res |-> IF optional THEN NULL
                               ELSE Error("NoProviderError", <<key>>)]
    /\ (last.op = "get" /\ last.inj = Child /\ last.key = KeyC
            /\ constructionCounter[Child] <= GetMaxNumberOfObjects(Heap, Child) + 1) =>
          LET deps == providers[Child][SlotOf(Child, KeyC)].facs[1].deps
          IN  /\ deps = <<Dependency(KeyA, FALSE, "none", "Self")>> =>
                    last.res = Error("NoProviderError", <<KeyA, KeyC>>)
              /\ deps = <<Dependency(KeyA, TRUE, "none", "Self")>> =>
                    /\ last.res.t = "object"
                    /\ made[last.res.id].args = <<NULL>>

\* C10 witness: the child's provider of C depends on A with Self and its
\* construction failed (the child counted one construction and made nothing)
\* although the root provides A; get(A) on the child then returned the object
\* the root made and keeps in its slot.
C10_Witness ==
    /\ providers[Child][1].facs[1].deps = <<Dependency(KeyA, FALSE, "none", "Self")>>
    /\ constructionCounter[Child] = 1
    /\ objs[Child][SlotOf(Child, KeyC)] = UNDEFINED
    /\ gets = 2 /\ last.op = "get" /\ last.inj = Child /\ last.key = KeyA
    /\ last.res = ObjectValue(1) /\ last.before = 0
    /\ Len(made) = 1 /\ made[1].inj = Root /\ made[1].key = KeyA
    /\ objs[Root][SlotOf(Root, KeyA)] = ObjectValue(1)

\* the root's providers of A and B depend on each other
RootIsCyclic ==
    /\ providers[Root][1].facs[1].deps = <<Dep(KeyB)>>
    /\ providers[Root][2].facs[1].deps = <<Dep(KeyA)>>

\* the number of constructions the guard of _new lets pass before it throws:
\* the calls that find the counter at 0 .. cap, cap being 10 for the inline
\* strategy and the number of providers for the dynamic one
GuardPasses(inj) ==
    1 + (IF Len(providers[inj]) > _MAX_CONSTRUCTION_COUNTER
         THEN Len(providers[inj]) ELSE _MAX_CONSTRUCTION_COUNTER)

\* C11: when A and B of the root depend on each other, a get of A or B that
\* reaches the root ends with a CyclicDependencyError, has invoked no factory
\* and filled no slot; the first such get made exactly the constructions the
\* guard lets pass plus the one it refused, under either strategy.
C11_CycleEndsWithCyclicError ==
    (RootIsCyclic /\ last.op = "get" /\ last.key \in {KeyA, KeyB}
        /\ (last.inj = Root \/ SlotOf(Child, last.key) = 0)) =>
            /\ last.res.t = "CyclicDependencyError"
            /\ last.before = Len(made)
            /\ Invocations(Root, KeyA) = 0 /\ Invocations(Root, KeyB) = 0
            /\ objs[Root][SlotOf(Root, KeyA)] = UNDEFINED
            /\ objs[Root][SlotOf(Root, KeyB)] = UNDEFINED
            /\ gets = 1 => /\ constructionCounter[Root] = GuardPasses(Root) + 1
                           /\ Len(last.res.keys) = GuardPasses(Root) + 1

\* C11 witness: the first get(A) on a root of more than 10 providers
\* (dynamic strategy) threw the cyclic error after 13 constructions.
C11_Witness ==
    /\ RootIsCyclic /\ Len(providers[Root]) > _MAX_CONSTRUCTION_COUNTER
    /\ gets = 1 /\ last.op = "get" /\ last.inj = Root /\ last.key = KeyA
    /\ last.res.t = "CyclicDependencyError"
    /\ constructionCounter[Root] = Len(providers[Root]) + 2

\* the heap with the construction counter of every injector back at 0
FreshCounters == [Heap EXCEPT !.cnt = [inj \in Injectors |-> 0]]

\* C12: a get has the result it would have with a fresh construction counter:
\* for every injector and every token, one of its fillers included, the kind
\* of result of get in the current state is the kind it has when the counters
\* left by the earlier calls are replaced by 0.
C12_CounterFreshAtEveryGet ==
    \A inj \in Injectors : \A key \in Tokens \cup {FirstFillerKey + InlineSlots} :
        InjectorGet(Heap, inj, key, THROW_IF_NOT_FOUND).res.t
            = InjectorGet(FreshCounters, inj, key, THROW_IF_NOT_FOUND).res.t

\* a value of the caller, neither null nor the THROW marker
CallerDefault == Value("default", 0)

\* C16: for a token no injector provides, get throws a NoProviderError for the
\* token when notFoundValue is the THROW marker and otherwise returns the
\* notFoundValue it was given; a dependency on it declared optional is null,
\* with every visibility; the heap is unchanged in each case (nothing is
\* instantiated, no slot and no counter changes). The get just made of such
\* a token has invoked no factory and gave the error or the null it was given.
C16_NotFoundPolicy ==
    /\ \A inj \in Injectors :
          /\ InjectorGet(Heap, inj, KeyMissing, THROW_IF_NOT_FOUND)
                = [st |-> Heap, res |-> Error("NoProviderError", <<KeyMissing>>)]
          /\ \A nf \in {NULL, CallerDefault} :
                InjectorGet(Heap, inj, KeyMissing, nf) = [st |-> Heap, res |-> nf]
          /\ \A lower \in {"none", "SkipSelf"}, upper \in {"none", "Self"} :
                GetByReflectiveDependency(Heap, inj,
                                          Dependency(KeyMissing, TRUE, lower, upper))
                    = [st |-> Heap, res |-> NULL]
    /\ (last.op = "get" /\ last.key = KeyMissing) =>
          /\ last.res \in {NULL, Error("NoProviderError", <<KeyMissing>>)}
          /\ last.before = Len(made)

\* C16 witness: after the root has made A with null for its optional
\* dependency on the missing token, get of the missing token on the child
\* threw the NoProviderError and made nothing.
C16_Witness ==
    /\ gets = 2 /\ last.op = "get" /\ last.inj = Child /\ last.key = KeyMissing
    /\ last.res = Error("NoProviderError", <<KeyMissing>>)
    /\ Len(made) = 1 /\ last.before = 1
    /\ made[1].key = KeyA /\ made[1].args = <<NULL>>
    /\ objs[Root][SlotOf(Root, KeyA)] = ObjectValue(1)

RECURSIVE Leaves(_)
Leaves(nodes) ==
    IF nodes = <<>> THEN <<>>
    ELSE IF Head(nodes).kind = "array"
         THEN Leaves(Head(nodes).items) \o Leaves(Tail(nodes))
         ELSE <<Head(nodes)>> \o Leaves(Tail(nodes))

\* the factories of the declarations of a token, in the order of ds
FactoriesOf(ds, token) ==
    LET IsOfToken(d) == d.token = token
        of == SelectSeq(ds, IsOfToken)
    IN  [i \in 1..Len(of) |-> [deps |-> of[i].deps, out |-> of[i].out]]

\* the object or array v was made by factory, of key, with one argument for
\* each of its dependencies
MadeBy(v, key, factory) ==
    /\ v.t = "object" /\ v.id \in 1..Len(made)
    /\ made[v.id].key = key /\ made[v.id].out = factory.out
    /\ Len(made[v.id].args) = Len(factory.deps)

\* C15: the injector created from a list of declarations has, for a multi
\* token, the factories of all its declarations in declaration order, and for
\* a token declared non-multi, the factory of its last declaration only; a
\* get of a multi token that returned gave one array whose i-th element was
\* made by the i-th factory, each factory having been invoked once for that
\* array; a get of a non-multi token that returned gave the object of its one
\* factory.
C15_MultiCollectsInOrder ==
    /\ last.op = "resolveAndCreate" =>
          \A i \in 1..Len(providers[Root]) :
              LET p == providers[Root][i]
                  declared == FactoriesOf(Leaves(last.arg), p.key)
              IN  IF p.multi THEN p.facs = declared
                  ELSE p.facs = <<declared[Len(declared)]>>
    /\ (last.op = "get" /\ last.key # INJECTOR_KEY /\ ~IsError(last.res)) =>
          LET p == providers[Root][SlotOf(Root, last.key)]
          IN  IF p.multi
              THEN /\ last.res.t = "array"
                   /\ Len(made[last.res.id].args) = Len(p.facs)
                   /\ \A i \in 1..Len(p.facs) :
                         MadeBy(made[last.res.id].args[i], p.key, p.facs[i])
                   /\ \A i, j \in 1..Len(p.facs) :
                         i < j => made[last.res.id].args[i].id
                                    < made[last.res.id].args[j].id
                   /\ Cardinality({n \in made[last.res.id].args[1].id..last.res.id :
                                       made[n].key = p.key /\ made[n].out # "array"})
                          = Len(p.facs)
              ELSE MadeBy(last.res, p.key, p.facs[1])

\* C15 witness: C was declared multi twice, the second factory depending on
\* A; get(C) returned the array of the two objects of C in declaration order,
\* the first made without argument, the second with the cached A.
C15_Witness ==
    /\ last.op = "get" /\ last.key = KeyC /\ last.res.t = "array"
    /\ Len(providers[Root]) = 2
    /\ providers[Root][SlotOf(Root, KeyC)].facs
          = <<[deps |-> <<>>, out |-> "ok"], [deps |-> <<Dep(KeyA)>>, out |-> "ok"]>>
    /\ Len(made[last.res.id].args) = 2
    /\ made[made[last.res.id].args[1].id].args = <<>>
    /\ made[made[last.res.id].args[2].id].args = <<objs[Root][SlotOf(Root, KeyA)]>>
    /\ objs[Root][SlotOf(Root, KeyA)].t = "object"
    /\ objs[Root][SlotOf(Root, KeyC)] = last.res

\* C19: instantiateResolved and resolveAndInstantiate leave every slot as it
\* is or fill it by getting a dependency, never with what they return: the
\* slot of the provider's key, if any, is unchanged; what they return is an
\* object (or array) made by this call, so it differs from every object
\* returned or cached before; and each argument of a non-multi provider's
\* object is what the injector's slot of that dependency holds after the call.
C19_Step ==
    (last'.op \in {"instantiateResolved", "resolveAndInstantiate"} /\ gets' = gets + 1) =>
        /\ SlotOf(Root, last'.key) # 0 =>
              objs'[Root][SlotOf(Root, last'.key)] = objs[Root][SlotOf(Root, last'.key)]
        /\ ~IsError(last'.res) =>
              /\ last'.res.id = Len(made') /\ last'.res.id > Len(made)
              /\ \A inj \in DOMAIN objs' : \A i \in DOMAIN objs'[inj] :
                    objs'[inj][i] # last'.res
              /\ last'.res.t = "object" =>
                    \A j \in 1..Len(made'[last'.res.id].args) :
                        LET arg == made'[last'.res.id].args[j]
                        IN  arg.t = "object" =>
                                \E i \in DOMAIN objs'[Root] : objs'[Root][i] = arg

C19_InstantiateDoesNotCache == [][C19_Step]_vars

\* C19 witness: instantiateResolved was called twice for the injector's
\* provider of A, which depends on B: two objects of A exist, both made with
\* the cached B, and the slot of A is still empty.
C19_Witness ==
    /\ gets = 2 /\ last.op = "instantiateResolved" /\ last.key = KeyA
    /\ Len(made) = 3 /\ last.res = ObjectValue(3)
    /\ made[2].key = KeyA /\ made[3].key = KeyA
    /\ made[2].args = <<ObjectValue(1)>> /\ made[3].args = <<ObjectValue(1)>>
    /\ objs[Root][SlotOf(Root, KeyB)] = ObjectValue(1)
    /\ objs[Root][SlotOf(Root, KeyA)] = UNDEFINED

\* C20: the injector created from a nested list of declarations has the
\* resolved providers, in the same order, that resolving the flat list of its
\* declarations gives.
C20_ResolveFlattens ==
    last.op = "resolveAndCreate" =>
        /\ providers[Root] = Resolve(Leaves(last.arg))
        /\ \A i \in 1..Len(providers[Root]) :
              \E n \in 1..Len(Leaves(last.arg)) :
                  /\ Leaves(last.arg)[n].token = providers[Root][i].key
                  /\ \A j \in (i + 1)..Len(providers[Root]) :
                        \E k \in (n + 1)..Len(Leaves(last.arg)) :
                            Leaves(last.arg)[k].token = providers[Root][j].key

\* C20 witness: resolveAndCreate([A, [B, [C]]]) created an injector whose
\* providers are those of A, B and C in this order.
C20_Witness ==
    /\ last.op = "resolveAndCreate"
    /\ last.arg = NestRight(<<ProviderDeclaration(KeyA, FALSE, <<>>, "ok"),
                              ProviderDeclaration(KeyB, FALSE, <<Dep(INJECTOR_KEY)>>, "ok"),
                              ProviderDeclaration(KeyC, TRUE, <<>>, "ok")>>)
    /\ Len(last.arg) = 2 /\ last.arg[2].kind = "array"
    /\ [i \in 1..Len(providers[Root]) |-> providers[Root][i].key] = <<KeyA, KeyB, KeyC>>

\* some provider of key, in some injector, has a factory depending on dep
DependsOn(key, dep) ==
    \E inj \in DOMAIN providers : \E n \in 1..Len(providers[inj]) :
        /\ providers[inj][n].key = key
        /\ \E f \in 1..Len(providers[inj][n].facs) :
              \E d \in 1..Len(providers[inj][n].facs[f].deps) :
                  providers[inj][n].facs[f].deps[d].key = dep

\* some provider of key has a factory that throws
FactoryThrows(key) ==
    \E inj \in DOMAIN providers : \E n \in 1..Len(providers[inj]) :
        providers[inj][n].key = key /\ providers[inj][n].facs[1].out = "throws"

\* C18: the error a get threw carries a path of keys: the first key is the
\* one that failed (a token without provider for NoProviderError, the key of
\* the factory that threw for InstantiationError, the key whose construction
\* the guard refused for CyclicDependencyError), each further key is that of
\* a provider depending on the key before it, and the last key is the token
\* of the get. With C depending on A and A on the missing token, get(C) on
\* the child, while the guard lets it, throws NoProviderError with the keys
\* Missing, A, C.
C18_ErrorCarriesPath ==
    (last.op = "get" /\ IsError(last.res)) =>
        LET keys == last.res.keys
        IN  /\ keys # <<>> /\ keys[Len(keys)] = last.key
            /\ \A i \in 2..Len(keys) : DependsOn(keys[i], keys[i - 1])
            /\ last.res.t = "NoProviderError" =>
                  SlotOf(Root, keys[1]) = 0 \/ SlotOf(Child, keys[1]) = 0
            /\ last.res.t = "InstantiationError" => FactoryThrows(keys[1])
            /\ last.res.t = "CyclicDependencyError" =>
                  \E inj \in Injectors :
                      /\ SlotOf(inj, keys[1]) # 0
                      /\ constructionCounter[inj] > GuardPasses(inj)
            /\ (/\ last.inj = Child /\ last.key = KeyC
                 /\ providers[Child][1].facs[1].deps = <<Dep(KeyA)>>
                 /\ providers[Root][1].facs[1].deps = <<Dep(KeyMissing)>>
                 /\ last.res.t # "CyclicDependencyError") =>
                    last.res = Error("NoProviderError", <<KeyMissing, KeyA, KeyC>>)

\* C18 witness: get(B) on the child reached the root's B, which depends on
\* A, which depends on the missing token: the NoProviderError carries
\* Missing, A, B.
C18_Witness ==
    /\ last.op = "get" /\ last.inj = Child /\ last.key = KeyB
    /\ last.res = Error("NoProviderError", <<KeyMissing, KeyA, KeyB>>)
    /\ constructionCounter[Root] = 2 /\ made = <<>>

\* what a caller can tell of a result: its kind and, for an object, the key
\* and the arguments' kinds it was made with, and whether it is the cached one
Observed(v, inj, key) ==
    [t |-> v.t,
     key |-> IF v.t = "object" THEN made[v.id].key ELSE NoKeyId,
     args |-> IF v.t = "object"
              THEN [j \in 1..Len(made[v.id].args) |-> made[v.id].args[j].t]
              ELSE <<>>,
     cached |-> IF SlotOf(inj, key) = 0 THEN FALSE
                ELSE objs[inj][SlotOf(inj, key)] = v]

\* C13: the same get made on the injector of the inline strategy and on the
\* injector of the dynamic strategy, after the same earlier gets, gives
\* results a caller cannot tell apart: the same kind of value or of error,
\* an object of the same provider, cached in both or in neither.
C13_StrategiesAgree ==
    last.op = "getBoth" =>
        Observed(last.res, InlineInjector, last.key)
            = Observed(last.other, DynamicInjector, last.key)

\* C14: getProviderAtIndex(i) on a proto-injector of n providers returns the
\* i-th provider when 0 <= i < n and throws OutOfBoundsError for every other
\* i, under both strategies.
C14_ProviderAtIndexInBounds ==
    last.op = "getProviderAtIndex" =>
        IF 0 <= last.key /\ last.key < Len(providers[last.inj])
        THEN last.res = ProviderValue(last.key)
        ELSE last.res.t = "OutOfBoundsError"

\* C21: a drain whose onMicrotaskEmpty subscribers left microtask work pending
\* ends without emitting onStable and with isStable false; the notification
\* that the last microtask of the tracked zone is done arrives at nesting 0
\* with the tracker unstable and runs checkStable; onMicrotaskEmpty is emitted
\* exactly by a checkStable at nesting 0 with nothing pending and the tracker
\* unstable; onStable is emitted only at the end of a drain that leaves no
\* microtask pending.
C21_Step ==
    LET at(pc) == IF stack = <<>> THEN FALSE
                  ELSE Top.k = "checkStable" /\ Top.pc = pc
        drained == IF stack = <<>> THEN FALSE
                   ELSE Top.k = "hasTask" /\ Top.pc = "microTask"
                        /\ Top.zone = "inner" /\ taskCounts.microTask = 0
        emits(name) == /\ Len(log') = Len(log) + 1
                       /\ log'[Len(log')].ev = name
    IN  /\ (at("finally") /\ hasPendingMicrotasks) =>
              /\ log' = log
              /\ ~isStable /\ ~isStable'
              /\ stack' = Pop(stack)
        /\ drained =>
              /\ nesting = 0 /\ ~isStable
              /\ ~hasPendingMicrotasks'
              /\ stack' = SetTop(stack, CheckStableFrame)
        /\ emits("onMicrotaskEmpty") <=>
              (at("start") /\ nesting = 0 /\ ~hasPendingMicrotasks /\ ~isStable)
        /\ emits("onStable") =>
              /\ at("finally") /\ ~hasPendingMicrotasks /\ taskCounts.microTask = 0
              /\ log[Len(log)].ev \in {"onMicrotaskEmpty", "onError"}

C21_EmptyAgainUntilNoNewWork == [][C21_Step]_vars

\* C21 witness: the subscriber of onMicrotaskEmpty scheduled a microtask in
\* the drain that ended run; the drain is over, onStable was not emitted and
\* the tracker is unstable at nesting 0 with the microtask pending.
C21_Witness ==
    /\ act = "checkStableFinally" /\ topCall = "run" /\ turn = 1
    /\ hasPendingMicrotasks /\ taskCounts.microTask = 1
    /\ ~isStable /\ nesting = 0
    /\ Notifications(log) = <<"onUnstable", "onMicrotaskEmpty">>

\* a call of checkStable that will make the tracker stable before it returns
\* is in progress: it is about to start, or it is emitting onStable and the
\* code running above it has not entered the tracked zone
Stabilising ==
    \/ IF stack = <<>> THEN FALSE ELSE Top.k = "checkStable" /\ Top.pc = "start"
    \/ \E i \in 1..Len(stack) :
          /\ stack[i].k = "checkStable" /\ stack[i].pc = "setStable"
          /\ \A j \in (i + 1)..Len(stack) :
                \/ stack[j].k = "user"
                \/ stack[j].k \in InvokeKinds /\ stack[j].pc = "onEnter"

\* C22: the tracker is unstable at nesting 0 with no microtask pending only
\* while the checkStable that setHasMicrotask or onLeave called is at work; so
\* it never is when an operation has returned to the host, nor when
\* checkStable has finished: by then onMicrotaskEmpty and onStable were
\* emitted in the same turn, in this order, and isStable is true.
C22_StableWithinTheDrain ==
    /\ (nesting = 0 /\ ~hasPendingMicrotasks /\ ~isStable) => Stabilising
    /\ stack = <<>> => nesting = 0
    /\ act = "setStable" =>
          /\ isStable
          /\ \E i, j \in 1..Len(log) :
                i < j /\ log[i].ev = "onMicrotaskEmpty" /\ log[j].ev = "onStable"

\* C22 witness: the turn of the last pending microtask is over; the
\* notification that none is left made checkStable emit onMicrotaskEmpty and
\* onStable in that turn and the tracker is stable.
C22_Witness ==
    /\ turn = 2 /\ topCall = "microTask" /\ stack = <<>> /\ act = "zoneReturn"
    /\ taskCounts.microTask = 0 /\ ~hasPendingMicrotasks
    /\ Notifications(log) = <<"onMicrotaskEmpty", "onStable">>
    /\ isStable /\ nesting = 0

\* C23: the step that delivers an error to onHandleError (from runGuarded or
\* from a task that threw) emits onError once with that error, which was not
\* emitted before, and changes no field of the tracker; no other step emits
\* onError; when the hook has returned, the error is in the log exactly once,
\* the zone gives control back without rethrowing it (only an error the
\* onError subscriber itself threw goes on) and no field of the tracker
\* changes.
C23_Step ==
    LET at(kinds, pc) == IF stack = <<>> THEN FALSE
                         ELSE Top.k \in kinds /\ Top.pc = pc
        delivered == /\ at({"runGuarded"}, "exit") \/ at(TaskKinds, "handleError")
                     /\ Leaving # NoErr
        emitted(e) == {i \in 1..Len(log) : log[i] = Event("onError", e)}
    IN  /\ delivered =>
              /\ emitted(Leaving) = {}
              /\ log' = Append(log, Event("onError", Leaving))
              /\ exc' = NoErr
              /\ UNCHANGED zoneVars
        /\ (Len(log') = Len(log) + 1 /\ log'[Len(log')].ev = "onError") => delivered
        /\ at(InvokeKinds, "handled") =>
              /\ Cardinality(emitted(Top.pend)) = 1
              /\ exc' = exc /\ exc' # Top.pend
              /\ log' = log
              /\ stack' = Pop(stack)
              /\ UNCHANGED zoneVars

C23_HandledErrorEmittedOnce == [][C23_Step]_vars

\* C23 witness: a macrotask of the tracked zone threw; its turn is over, the
\* error was emitted once on onError and did not reach the host.
C23_Witness ==
    /\ act = "zoneReturn" /\ stack = <<>> /\ topCall = "macroTask"
    /\ exc = NoErr /\ errs = 1
    /\ Count(log, "onError") = 1
    /\ \E i \in 1..Len(log) : log[i] = Event("onError", 1)

\* the nearest injector, from inj upward, that has a provider for key
RECURSIVE Owner(_, _)
Owner(inj, key) ==
    IF inj = NoInjector THEN NoInjector
    ELSE IF SlotOf(inj, key) # 0 THEN inj
    ELSE Owner(parentOf[inj], key)

RECURSIVE Ancestors(_)
Ancestors(inj) ==
    IF parentOf[inj] = NoInjector THEN {}
    ELSE {parentOf[inj]} \cup Ancestors(parentOf[inj])

\* the injectors below inj in the tree
Below(inj) == {x \in DOMAIN parentOf : inj \in Ancestors(x)}

\* C24: a get of a token changes no slot of the injectors below the nearest
\* injector that provides it (the requester included, unless it is that
\* injector) and invokes none of their factories; the object it returns is the
\* one in that injector's slot, made by that injector's factory, and every
\* argument of the factory is the Injector itself, null for an optional
\* dependency nobody provides, or the object in the slot of the nearest
\* provider counted from that injector (from its parent for SkipSelf), made by
\* that provider's injector.
C24_Step ==
    LET inj == last'.inj
        key == last'.key
        v == last'.res
        owner == Owner(inj, key)
        slot == SlotOf(owner, key)
        deps == providers[owner][slot].facs[1].deps
        from(d) == Owner(IF d.lower = "SkipSelf" THEN parentOf[owner] ELSE owner, d.key)
    IN  (last'.op = "get" /\ gets' = gets + 1 /\ owner # NoInjector) =>
            /\ \A x \in Below(owner) :
                  /\ objs'[x] = objs[x]
                  /\ \A n \in (Len(made) + 1)..Len(made') : made'[n].inj # x
            /\ ~IsError(v) =>
                  /\ v = objs'[owner][slot]
                  /\ made'[v.id].inj = owner /\ made'[v.id].key = key
                  /\ Len(made'[v.id].args) = Len(deps)
                  /\ \A j \in 1..Len(deps) :
                        LET arg == made'[v.id].args[j]
                        IN  IF deps[j].key = INJECTOR_KEY THEN arg = InjectorValue(owner)
                            ELSE IF from(deps[j]) = NoInjector THEN arg = NULL
                            ELSE /\ arg = objs'[from(deps[j])][SlotOf(from(deps[j]),
                                                                     deps[j].key)]
                                 /\ made'[arg.id].inj = from(deps[j])
                                 /\ made'[arg.id].key = deps[j].key

C24_NearestProviderSupplies == [][C24_Step]_vars

\* C24 witness: get(A) on the grandchild, which has its own B as the child
\* has, returned the A the root made with the root's B; both are in the
\* root's slots and the slots of the child and the grandchild are empty.
C24_Witness ==
    /\ DOMAIN parentOf = ChainInjectors
    /\ gets = 1 /\ last.op = "get" /\ last.inj = Grandchild /\ last.key = KeyA
    /\ SlotOf(Grandchild, KeyB) # 0 /\ SlotOf(Child, KeyB) # 0
    /\ last.res = ObjectValue(2)
    /\ made[1].inj = Root /\ made[1].key = KeyB
    /\ made[2].inj = Root /\ made[2].key = KeyA /\ made[2].args = <<ObjectValue(1)>>
    /\ objs[Root][SlotOf(Root, KeyA)] = ObjectValue(2)
    /\ objs[Root][SlotOf(Root, KeyB)] = ObjectValue(1)
    /\ \A x \in {Child, Grandchild} : \A i \in DOMAIN objs[x] : objs[x][i] = UNDEFINED

\* what the not-found policy gives for a dependency on key
NotFound(key, optional) ==
    IF optional THEN NULL ELSE Error("NoProviderError", <<key>>)

\* C25: a dependency of an injector on B declared SkipSelf has the outcome
\* (result and effect) of a get of B on the injector's parent, with null as
\* notFoundValue if it is optional, and the outcome of the not-found policy,
\* changing nothing, if the injector has no parent; an object it gives was
\* not made by the injector itself, which may well provide B. The get just
\* made of a provider with such a dependency, unless the guard of _new stopped
\* it, got the object in the slot of the nearest provider above the injector,
\* or threw the NoProviderError with the provider's key added, or was made
\* with null, when there is none.
C25_SkipSelfStartsAtParent ==
    /\ \A inj \in DOMAIN parentOf : \A optional \in BOOLEAN :
          \A r \in {GetByReflectiveDependency(Heap, inj, SkipSelfDep(KeyB, optional))} :
              /\ r = IF parentOf[inj] = NoInjector
                     THEN [st |-> Heap, res |-> NotFound(KeyB, optional)]
                     ELSE InjectorGet(Heap, parentOf[inj], KeyB,
                                      IF optional THEN NULL ELSE THROW_IF_NOT_FOUND)
              /\ r.res.t = "object" => r.st.made[r.res.id].inj # inj
    /\ (last.op = "get" /\ last.key \in {KeyA, KeyC}
            /\ Owner(last.inj, last.key) # NoInjector) =>
          LET owner == Owner(last.inj, last.key)
              deps == providers[owner][SlotOf(owner, last.key)].facs[1].deps
              above == Owner(parentOf[owner], KeyB)
          IN  (/\ deps \in {<<SkipSelfDep(KeyB, FALSE)>>, <<SkipSelfDep(KeyB, TRUE)>>}
               /\ constructionCounter[owner] <= GetMaxNumberOfObjects(Heap, owner) + 1) =>
                  IF above = NoInjector
                  THEN IF deps[1].optional
                       THEN /\ last.res.t = "object"
                            /\ made[last.res.id].args = <<NULL>>
                       ELSE last.res = Error("NoProviderError", <<KeyB, last.key>>)
                  ELSE /\ last.res.t = "object"
                       /\ made[last.res.id].args = <<objs[above][SlotOf(above, KeyB)]>>
                       /\ made[made[last.res.id].args[1].id].inj = above

\* C25 witness: the grandchild provides B and C, C depending on B with
\* SkipSelf; get(C) on it returned a C made with the B of the child, and the
\* grandchild's own slot of B is empty; the root's A, which depends on the
\* root's B with SkipSelf, failed with a NoProviderError.
C25_Witness ==
    /\ DOMAIN parentOf = ChainInjectors
    /\ providers[Grandchild][1].facs[1].deps = <<SkipSelfDep(KeyB, FALSE)>>
    /\ providers[Root][1].facs[1].deps = <<SkipSelfDep(KeyB, FALSE)>>
    /\ SlotOf(Grandchild, KeyB) # 0
    /\ gets = 2 /\ last.op = "get" /\ last.inj = Root /\ last.key = KeyA
    /\ last.res = Error("NoProviderError", <<KeyB, KeyA>>)
    /\ Len(made) = 2 /\ made[1].inj = Child /\ made[1].key = KeyB
    /\ made[2].inj = Grandchild /\ made[2].key = KeyC
    /\ made[2].args = <<ObjectValue(1)>>
    /\ objs[Grandchild][SlotOf(Grandchild, KeyB)] = UNDEFINED

\* C26: when the first get made on the injectors ends with the
\* CyclicDependencyError of the root's guard, the root's counter is one above
\* its capacity (10 for the inline strategy, the number of providers for the
\* dynamic one): the failing _new is the one that raised it above the
\* capacity, and the calls that passed the guard, one key of the error's path
\* each after the first, are at most capacity.
C26_GuardStopsAtCapacity ==
    (gets = 1 /\ last.op = "get" /\ last.res.t = "CyclicDependencyError"
        /\ constructionCounter[Child] = 0) =>
            /\ constructionCounter[Root] = GetMaxNumberOfObjects(Heap, Root) + 1
            /\ Len(last.res.keys) - 1 <= GetMaxNumberOfObjects(Heap, Root)

\* C27: when the providers of the injectors are not cyclic (A and B do not
\* depend on each other), no get ends with a CyclicDependencyError, whatever
\* gets, failed ones included, were made before.
C27_CyclicErrorOnlyForCycles ==
    (~RootIsCyclic /\ last.op = "getBoth") =>
        /\ last.res.t # "CyclicDependencyError"
        /\ last.other.t # "CyclicDependencyError"

\* C28: every factory invocation of the get just made that threw made the get
\* end with an InstantiationError that wraps the error of that invocation and
\* whose first key is the key of the provider; an InstantiationError a get
\* ended with wraps either the error thrown by the last factory invocation of
\* that get, a factory of the provider of its first key, or the refusal of a
\* provider of more than 20 dependencies, whose factory was not invoked; the
\* get of such a provider, unless the guard of _new stopped it, ended with
\* that InstantiationError.
C28_FactoryErrorIsWrapped ==
    last.op = "get" =>
        /\ \A n \in (last.before + 1)..Len(made) : made[n].out = "throws" =>
              /\ last.res.t = "InstantiationError"
              /\ last.res.id = n
              /\ last.res.keys[1] = made[n].key
        /\ last.res.t = "InstantiationError" =>
              LET key == last.res.keys[1]
                  chain == {last.inj} \cup Ancestors(last.inj)
                  refuses(x) ==
                      /\ SlotOf(x, key) # 0
                      /\ Len(providers[x][SlotOf(x, key)].facs[1].deps) > MaxFactoryArgs
              IN  IF last.res.id = CannotInstantiate
                  THEN /\ \E x \in chain : refuses(x)
                       /\ \A n \in (last.before + 1)..Len(made) : made[n].key # key
                  ELSE /\ last.res.id = Len(made) /\ last.res.id > last.before
                       /\ made[last.res.id].out = "throws"
                       /\ made[last.res.id].key = key
                       /\ made[last.res.id].inj \in chain
        /\ \A owner \in {Owner(last.inj, last.key)} :
              (/\ owner # NoInjector
               /\ constructionCounter[owner] <= GetMaxNumberOfObjects(Heap, owner) + 1
               /\ Len(providers[owner][SlotOf(owner, last.key)].facs[1].deps)
                     > MaxFactoryArgs) =>
                  /\ last.res = InstantiationError(CannotInstantiate, last.key)
                  /\ last.before = Len(made)

\* C28 witness: the factory of the root's B threw in an earlier get; get(A)
\* on the grandchild then invoked it again for A's dependency and ended with
\* an InstantiationError wrapping the error of that second invocation, with
\* the keys of B and A.
C28_Witness ==
    /\ DOMAIN parentOf = ChainInjectors
    /\ gets = 2 /\ last.op = "get" /\ last.inj = Grandchild /\ last.key = KeyA
    /\ last.before = 1 /\ Len(made) = 2
    /\ made[2] = [inj |-> Root, key |-> KeyB, args |-> <<>>, out |-> "throws"]
    /\ last.res = [t |-> "InstantiationError", id |-> 2, keys |-> <<KeyB, KeyA>>]

\* C29: when the factory of B throws and B's dependencies can be made, every
\* get of B, and of A if A depends on B, fails on both injectors with the
\* InstantiationError of an invocation of B's factory made in that very get,
\* however many such gets failed before; the slots of B and of the token
\* stay UNDEFINED and the A that B depends on, once made, stays in its slot.
C29_FailedConstructionIsRetried ==
    LET da == providers[InlineInjector][1].facs[1].deps
        db == providers[InlineInjector][2].facs[1].deps
        res(inj) == IF inj = InlineInjector THEN last.res ELSE last.other
    IN  (/\ last.op = "getBoth"
         /\ providers[InlineInjector][2].facs[1].out = "throws"
         /\ \/ db = <<>> /\ last.key = KeyB
            \/ db = <<>> /\ last.key = KeyA /\ da = <<Dep(KeyB)>>
            \/ db = <<Dep(KeyA)>> /\ last.key = KeyB
                  /\ da \in { <<>>, <<Dependency(KeyMissing, TRUE, "none", "none")>> }) =>
            \A inj \in {InlineInjector, DynamicInjector} :
                /\ objs[inj][SlotOf(inj, KeyB)] = UNDEFINED
                /\ objs[inj][SlotOf(inj, last.key)] = UNDEFINED
                /\ db = <<Dep(KeyA)>> => objs[inj][SlotOf(inj, KeyA)].t = "object"
                /\ res(inj).t = "InstantiationError"
                /\ res(inj).id > last.before
                /\ made[res(inj).id].inj = inj /\ made[res(inj).id].key = KeyB

\* C30: for a token that an injector or one above it provides, a dependency
\* of that injector declared optional has the outcome (result and effect) of
\* the same dependency not declared optional, so never null in place of an
\* error. The get just made of a provider whose one dependency is optional
\* and provided ended with the error of that dependency's construction, an
\* InstantiationError, a CyclicDependencyError or a NoProviderError of a
\* token further down, whose path continues with the dependency's key and the
\* provider's, or returned an object made with the object in the slot of the
\* dependency's nearest provider.
C30_OptionalOnlyForNoProvider ==
    /\ \A inj \in DOMAIN parentOf : \A key \in {KeyA, KeyB} :
          Owner(inj, key) # NoInjector =>
              GetByReflectiveDependency(Heap, inj, OptionalDep(key))
                  = GetByReflectiveDependency(Heap, inj, Dep(key))
    /\ (last.op = "get" /\ Owner(last.inj, last.key) # NoInjector) =>
          LET owner == Owner(last.inj, last.key)
              deps == providers[owner][SlotOf(owner, last.key)].facs[1].deps
              from == Owner(owner, deps[1].key)
              keys == last.res.keys
          IN  (deps \in {<<OptionalDep(KeyA)>>, <<OptionalDep(KeyB)>>}
                  /\ from # NoInjector) =>
                  IF IsError(last.res)
                  THEN /\ last.res.t \in {"InstantiationError", "CyclicDependencyError",
                                          "NoProviderError"}
                       /\ keys[Len(keys)] = last.key
                       /\ Len(keys) >= 2 => keys[Len(keys) - 1] = deps[1].key
                       /\ last.res.t = "NoProviderError" => Len(keys) >= 3
                       /\ objs[owner][SlotOf(owner, last.key)] = UNDEFINED
                  ELSE /\ last.res.t = "object"
                       /\ made[last.res.id].args
                              = <<objs[from][SlotOf(from, deps[1].key)]>>
                       /\ made[last.res.id].args[1].t = "object"

\* C30 witness: the grandchild's C depends optionally on A, which the root
\* provides and makes with its B, whose factory throws; get(C) on the
\* grandchild ended with the InstantiationError of B's factory, with the keys
\* of B, A and C, and no C was made.
C30_Witness ==
    /\ DOMAIN parentOf = ChainInjectors
    /\ providers[Grandchild][1].facs[1].deps = <<OptionalDep(KeyA)>>
    /\ gets = 1 /\ last.op = "get" /\ last.inj = Grandchild /\ last.key = KeyC
    /\ last.res = [t |-> "InstantiationError", id |-> 1, keys |-> <<KeyB, KeyA, KeyC>>]
    /\ made = <<[inj |-> Root, key |-> KeyB, args |-> <<>>, out |-> "throws"]>>
    /\ objs[Grandchild][SlotOf(Grandchild, KeyC)] = UNDEFINED

\* C31: getAt(i) on an injector of n providers throws an OutOfBoundsError for
\* every i outside 0 <= i < n under both strategies, and for a valid i gives
\* the object held for provider i.
C31_GetAtInBounds ==
    last.op = "getAt" =>
        IF 0 <= last.key /\ last.key < Len(providers[last.inj])
        THEN last.res = objs[last.inj][last.key + 1]
        ELSE last.res.t = "OutOfBoundsError"

\* the injector whose provider a dependency of a provider of inj is got from,
\* NoInjector if there is none
Target(inj, dep) ==
    IF dep.upper = "Self" THEN (IF SlotOf(inj, dep.key) # 0 THEN inj ELSE NoInjector)
    ELSE Owner(IF dep.lower = "SkipSelf" THEN parentOf[inj] ELSE inj, dep.key)

\* the providers, as <<injector, key>>, the factories of the provider of key
\* in inj depend on
DependenciesOfProvider(inj, key) ==
    LET facs == providers[inj][SlotOf(inj, key)].facs
    IN  UNION { { <<Target(inj, facs[i].deps[j]), facs[i].deps[j].key>> :
                    j \in 1..Len(facs[i].deps) } : i \in 1..Len(facs) }

DependenciesOf(S) == UNION { DependenciesOfProvider(x[1], x[2]) : x \in S }

\* the providers reachable from those in S in at most n dependencies
RECURSIVE ReachableFrom(_, _)
ReachableFrom(S, n) ==
    IF n = 0 THEN S
    ELSE ReachableFrom(S \cup {x \in DependenciesOf(S) : x[1] # NoInjector}, n - 1)

\* the providers a get of key on inj can reach
Reachable(inj, key) ==
    IF Owner(inj, key) = NoInjector THEN {}
    ELSE ReachableFrom({<<Owner(inj, key), key>>}, 3)

\* C32: creating an injector or a child injector invokes no factory, leaves
\* every slot of the new injector uninstantiated with its counter at 0, and
\* changes no slot and no counter of the injectors there were; a get invokes
\* only factories of providers reachable from the requested key whose slot
\* was empty, and a get that returned the object of a provider whose slot was
\* empty has invoked that provider's factory and filled the slot.
C32_Step ==
    /\ providers' # providers =>
          LET new == Len(providers')
          IN  /\ made' = made
              /\ new = Len(providers) + 1
              /\ \A i \in DOMAIN objs'[new] : objs'[new][i] = UNDEFINED
              /\ Len(objs'[new]) >= Len(providers'[new])
              /\ constructionCounter'[new] = 0
              /\ parentOf'[new] = (IF new = Root THEN NoInjector ELSE Root)
              /\ \A inj \in DOMAIN providers :
                    /\ objs'[inj] = objs[inj]
                    /\ constructionCounter'[inj] = constructionCounter[inj]
                    /\ providers'[inj] = providers[inj]
                    /\ parentOf'[inj] = parentOf[inj]
    /\ (providers' = providers /\ gets' = gets + 1) =>
          /\ \A n \in (Len(made) + 1)..Len(made') :
                /\ <<made'[n].inj, made'[n].key>> \in Reachable(last'.inj, last'.key)
                /\ objs[made'[n].inj][SlotOf(made'[n].inj, made'[n].key)] = UNDEFINED
          /\ \A inj \in DOMAIN providers : \A i \in DOMAIN objs[inj] :
                objs'[inj][i] # objs[inj][i] =>
                    /\ objs[inj][i] = UNDEFINED
                    /\ <<inj, providers[inj][i].key>> \in Reachable(last'.inj, last'.key)
          /\ \A owner \in {Owner(last'.inj, last'.key)} :
                (owner # NoInjector /\ ~IsError(last'.res)
                    /\ objs[owner][SlotOf(owner, last'.key)] = UNDEFINED) =>
                        /\ \E n \in (Len(made) + 1)..Len(made') :
                              /\ made'[n].inj = owner /\ made'[n].key = last'.key
                              /\ last'.res = ObjectValue(n)
                        /\ objs'[owner][SlotOf(owner, last'.key)] = last'.res

C32_CreationIsLazy == [][C32_Step]_vars

\* C32 witness: get(A) on the root made B and A; the child created afterwards
\* has empty slots although its C depends on A and B, the root's slots are as
\* they were, and get(B) on the child, which has its own B, then invoked the
\* factory of the child's B only.
C32_Witness ==
    /\ Len(providers) = 2 /\ gets = 2
    /\ providers[Root][1].facs[1].deps = <<Dep(KeyB)>>
    /\ providers[Child][1].facs[1].deps = <<Dep(KeyA), Dep(KeyB)>>
    /\ SlotOf(Child, KeyB) = 2
    /\ last.op = "get" /\ last.inj = Child /\ last.key = KeyB
    /\ last.res = ObjectValue(3) /\ last.before = 2
    /\ made[1].inj = Root /\ made[1].key = KeyB
    /\ made[2].inj = Root /\ made[2].key = KeyA
    /\ made[3].inj = Child /\ made[3].key = KeyB
    /\ objs[Child][1] = UNDEFINED /\ objs[Child][2] = ObjectValue(3)
    /\ objs[Root][1] = ObjectValue(2) /\ objs[Root][2] = ObjectValue(1)

\* what a factory declared to return null or undefined returns
Returned(out) == IF out = "null" THEN NULL ELSE JS_UNDEFINED

\* C33: a provider whose factory returns null or undefined has been invoked
\* at most once in its injector, exactly once if its slot holds the value;
\* from then on every get of its key on that injector returns the value in the
\* slot, whatever the notFoundValue, and changes nothing; the get just made of
\* such a key on the injector that owns the provider returned the value
\* (neither the notFoundValue nor an error), filled the slot and invoked no
\* factory of another injector; the get just made of C on the child, whose
\* dependency on B is looked up from the child, made C with that value.
C33_NullCountsAsFound ==
    /\ \A inj \in Injectors : \A i \in 1..Len(providers[inj]) :
          LET p == providers[inj][i]
          IN  (p.facs[1].out \in {"null", "undefined"} /\ SlotOf(inj, p.key) = i) =>
                /\ Invocations(inj, p.key) <= 1
                /\ objs[inj][i] # UNDEFINED <=> Invocations(inj, p.key) = 1
                /\ objs[inj][i] # UNDEFINED =>
                      /\ objs[inj][i] = Returned(p.facs[1].out)
                      /\ \A nf \in {THROW_IF_NOT_FOUND, NotFoundDefault} :
                            InjectorGet(Heap, inj, p.key, nf)
                                = [st |-> Heap, res |-> objs[inj][i]]
                /\ (last.op = "get" /\ last.inj = inj /\ last.key = p.key) =>
                      /\ last.res = Returned(p.facs[1].out)
                      /\ objs[inj][i] = last.res
                      /\ \A n \in (last.before + 1)..Len(made) : made[n].inj = inj
    /\ (last.op = "get" /\ last.inj = Child /\ last.key = KeyC
            /\ providers[Child][1].facs[1].deps[1].lower = "none") =>
          /\ last.res.t = "object"
          /\ made[last.res.id].args
                = <<Returned(providers[Child][SlotOf(Child, KeyB)].facs[1].out)>>
          /\ \A n \in (last.before + 1)..Len(made) : made[n].inj = Child

\* C33 witness: the root's B is an object factory never invoked, the child's
\* B returned undefined once; a second get(B) on the child with a
\* notFoundValue returned the cached undefined without invoking a factory.
C33_Witness ==
    /\ providers[Child][SlotOf(Child, KeyB)].facs[1].out = "undefined"
    /\ providers[Root][SlotOf(Root, KeyB)].facs[1].out = "ok"
    /\ gets = 2 /\ last.op = "get" /\ last.inj = Child /\ last.key = KeyB
    /\ last.nf = NotFoundDefault /\ last.res = JS_UNDEFINED
    /\ last.before = 1 /\ Len(made) = 1
    /\ made[1].inj = Child /\ made[1].key = KeyB /\ made[1].out = "undefined"
    /\ objs[Child][SlotOf(Child, KeyB)] = JS_UNDEFINED
    /\ objs[Root][SlotOf(Root, KeyB)] = UNDEFINED

\* a call in progress that has raised nesting and not yet lowered it: an
\* invocation between onEnter and onLeave, a checkStable between its
\* nesting++ and its nesting--
Entered(f) ==
    \/ f.k \in InvokeKinds /\ f.pc \in {"fn", "onLeave"}
    \/ f.k = "checkStable" /\ f.pc = "finally"

\* C34: nesting is never negative and is 0 whenever the tracker is stable;
\* nesting is exactly the number of calls in progress that have raised it, so
\* every tracked invocation and every checkStable that has ended, by return or
\* by an error of fn or of a subscriber, has left nesting at the value it had
\* on entry, and nesting is 0 when no call is in progress.
C34_NestingBalanced ==
    /\ nesting >= 0
    /\ isStable => nesting = 0
    /\ nesting = Cardinality({i \in 1..Len(stack) : Entered(stack[i])})

\* C34 witness: a run nested in the function of a run has ended with the
\* error its function threw; nesting is back at 1, the value it had when the
\* nested run was entered.
C34_Witness ==
    /\ act = "zoneReturn" /\ exc # NoErr /\ nesting = 1
    /\ Len(stack) = 2 /\ stack[1].k = "run" /\ stack[1].pc = "onLeave"
    /\ stack[2].k = "user" /\ stack[2].pc = "fn"

\* C35: when a run called by the host on a stable tracker (its entry emitted
\* onUnstable) has ended with an error and no microtask is pending, nesting
\* is 0, onMicrotaskEmpty and onStable have been emitted after the onUnstable
\* of the entry, and isStable is true.
C35_LeaveRunsWhenFnThrows ==
    (act = "zoneReturn" /\ stack = <<>> /\ topCall = "run" /\ exc # NoErr
        /\ log # <<>> /\ log[1].ev = "onUnstable" /\ ~hasPendingMicrotasks) =>
            /\ nesting = 0
            /\ isStable
            /\ \E i \in 2..Len(log) : \E j \in (i + 1)..Len(log) :
                  log[i].ev = "onMicrotaskEmpty" /\ log[j].ev = "onStable"

\* C35 witness: the function of the first run threw at once; the error is
\* on its way to the host, the three notifications were emitted and the
\* tracker is stable.
C35_Witness ==
    /\ act = "zoneReturn" /\ stack = <<>> /\ topCall = "run" /\ turn = 1
    /\ exc = 1 /\ errs = 1 /\ fuel = MaxOps - 2
    /\ Notifications(log) = <<"onUnstable", "onMicrotaskEmpty", "onStable">>
    /\ isStable /\ nesting = 0 /\ ~hasPendingMicrotasks

\* a subscriber of the emitter is running or has called what is running
InHandler(role) == \E i \in 1..Len(stack) : stack[i].k = "user" /\ stack[i].pc = role

\* C36: while a subscriber of onMicrotaskEmpty is running, nesting is at
\* least 1 and the tracker is unstable, and no step (a run it calls, a hasTask
\* notification of a task it schedules, the checkStable they end with) emits
\* onUnstable, onMicrotaskEmpty or onStable or makes the tracker stable; a
\* subscriber of onStable runs in the outer zone with nesting 0, and a
\* microtask it schedules itself is counted for the outer zone only: no field
\* of the tracker changes and nothing is notified.
C36_Step ==
    /\ InHandler("onMicrotaskEmpty") =>
          /\ nesting >= 1 /\ ~isStable
          /\ Notifications(log') = Notifications(log)
          /\ ~isStable'
    /\ OnTop("onStable") =>
          /\ Top.zone = "outer" /\ nesting = 0
          /\ act' = "scheduleMicroTask" =>
                /\ UNCHANGED <<zoneVars, taskCounts, log>>
                /\ stack' = stack
                /\ outerTasks' = outerTasks + 1

C36_HandlersNestingAndZone == [][C36_Step]_vars

\* C36 witness: the subscriber of onMicrotaskEmpty called run; that run has
\* left and its checkStable did nothing: nesting is 1 and only the onUnstable
\* and the onMicrotaskEmpty of the host's run have been emitted.
C36_Witness ==
    /\ act = "checkStable" /\ InHandler("onMicrotaskEmpty")
    /\ Len(stack) = 4 /\ Top.k = "run" /\ Top.pc = "exit" /\ Top.zone = "inner"
    /\ stack[3].k = "user" /\ stack[3].pc = "onMicrotaskEmpty"
    /\ nesting = 1 /\ ~isStable
    /\ Notifications(log) = <<"onUnstable", "onMicrotaskEmpty">>

\* C37: isStable becomes true only by the last statement of checkStable, after
\* the subscribers of onStable have run, and is then true also when a
\* subscriber threw; it is false as long as a subscriber of onStable is
\* running or has called what is running; it never becomes true while
\* hasPendingMicrotasks is true.
C37_Step ==
    /\ (~isStable /\ isStable') => (act' = "setStable" /\ ~hasPendingMicrotasks')
    /\ act' = "setStable" => isStable'
    /\ InHandler("onStable") => ~isStable

C37_StableOnlyAfterOnStable == [][C37_Step]_vars

\* C38: a hasTask notification whose target is not the tracked zone is passed
\* to the parent delegate and does nothing else: the four fields of the
\* tracker are unchanged, nothing is emitted and checkStable is not run; a
\* notification of the tracked zone itself is passed on as well and sets the
\* flag of its class of tasks.
C38_Step ==
    LET notified == IF stack = <<>> THEN FALSE ELSE Top.k = "hasTask"
    IN  /\ (notified /\ Top.zone # "inner") =>
              /\ delegated' = Forwarded(Top.zone, Top.pc)
              /\ UNCHANGED <<isStable, nesting, hasPendingMicrotasks,
                             hasPendingMacrotasks, log>>
              /\ stack' = Pop(stack)
        /\ (notified /\ Top.zone = "inner") =>
              /\ delegated' = Forwarded("inner", Top.pc)
              /\ Top.pc = "microTask" =>
                    hasPendingMicrotasks' = (taskCounts.microTask > 0)
              /\ Top.pc = "macroTask" =>
                    hasPendingMacrotasks' = (taskCounts.macroTask > 0)
        /\ (hasPendingMicrotasks' # hasPendingMicrotasks
                \/ hasPendingMacrotasks' # hasPendingMacrotasks) =>
              (notified /\ Top.zone = "inner")

C38_OnlyOwnHasTaskCounts == [][C38_Step]_vars

\* C38 witness: the function of the first run scheduled a microtask in a
\* zone forked from the tracked zone; the notification was passed on and the
\* tracker has no pending microtask, is still at nesting 1 and has emitted
\* onUnstable only.
C38_Witness ==
    /\ act = "onHasTask" /\ delegated = Forwarded("child", "microTask")
    /\ turn = 1 /\ topCall = "run" /\ OnTop("fn")
    /\ ~hasPendingMicrotasks /\ ~hasPendingMacrotasks /\ ~isStable /\ nesting = 1
    /\ taskCounts = [microTask |-> 0, macroTask |-> 0]
    /\ Notifications(log) = <<"onUnstable">>

====
